---- MODULE Spec2Model ----
(***************************************************************************)
(* Model of the storage-helper AI orchestration service:                   *)
(*   - LocalStorage (app/storage/local_storage.py): document bodies,       *)
(*     embeddings, images and the shared index file;                       *)
(*   - the same save_document run by several writers that share the        *)
(*     storage directory (no lock in the code);                            *)
(*   - IngestionPipeline (app/pipelines/ingestion.py).                     *)
(*                                                                         *)
(* Conventions for Python values:                                          *)
(*   None / missing int     NoOwner (0) for owner ids, NoDocId (0) for ids *)
(*   missing dict key       Absent, AbsentDim                              *)
(*   Optional[dict]/[list]  <<>> is None, <<v>> is the value v             *)
(*   str                    a TLA+ string, or a tuple of small integers    *)
(*                          (characters) where the code slices it          *)
(* Timestamps (created_at) are not modelled: no decision reads them.       *)
(***************************************************************************)
EXTENDS Integers, Sequences, FiniteSets, TLC

\* ------------------------------------------------------------- bounds
MaxDocs == 2            \* how many document IDs uuid4 hands out in a run of the model
MaxRuns == 1            \* how many ingestion runs are started
MaxGenerates == 3       \* how many generate() calls are started
MaxEnsures == 2         \* how many direct ensure_category_exists calls are made
MaxSearchDocs == 3      \* how many documents are saved before searches
MaxOverlapping == 2     \* how many generate() calls are started by two callers at once
MaxSharedAssigns == 2   \* how many assignments are made between saves and deletes

\* ------------------------------------------------------------- program constants
PreviewLen == 200       \* text_preview = extracted_text[:200]

NoOwner == 0            \* owner_id None
NoDocId == 0            \* document_id None
AbsentDim == -1         \* "embedding_dimension" key missing from document_data
Absent == "absent"      \* a string-valued key missing from document_data

Owners == {1, 2}
OwnerKeys == Owners \cup {NoOwner}      \* str(owner_id): "1", "2", "None"
Ids == 1..MaxDocs

\* image_extensions tried, in this order, by delete_document
ImageExtensions == <<".jpg", ".jpeg", ".png", ".gif", ".bmp", ".webp">>

VARIABLES
    \* ---- LocalStorage: the files under storage_dir
    documents,      \* documents/<id>.json : [subset of Ids -> document_record]
    embeddings,     \* embeddings/<id>.json: [subset of Ids -> embedding_record]
    images,         \* images/<id><ext>    : set of <<id, ext>>
    index,          \* index.json: [kind, owner, documents]
    nextId,         \* the next fresh uuid4
    \* ---- what the callers of LocalStorage have observed
    saved,          \* [ids returned by save_document -> the document_data passed]
    failedSaves,    \* ids whose save_document raised after the id was generated
    deletedOk,      \* ids for which delete_document returned True
    deleteCalled,   \* ids delete_document was called with
    faulted,        \* an I/O fault or an index corruption has happened
    \* ---- concurrent writers of save_document
    wpc, wid, wdata, wsnap,
    \* ---- IngestionPipeline
    pc, task, state, req, errorStore, remoteStore, runs, hist,
    \* ---- RecommendationGenerator: its files and its calls
    categories,         \* document_categories.json: sequence of [id, code, name]
    locations,          \* locations.json: sequence of [id, name, words]
    location_mappings,  \* "location_mappings" of index.json
    gen,                \* [Generators -> the generate() call in progress]
    gcalls,             \* how many generate() calls were started
    ensured,            \* what direct ensure_category_exists calls returned
    last,               \* the last proposal the current generate() call resolved, and how
    assignments,        \* the successful assignments so far: sequence of [category_id, location]
    pair,               \* two generate() calls run from the same files: <<>> or <<first, second>>
    \* ---- SearchEngine
    found,              \* the last search() call and what it returned: <<>> or <<[...]>>
    \* ---- ResultAssembler and SearchPipeline
    assembled,          \* the last assemble() call and what it returned: <<>> or <<[...]>>
    query_state,        \* SearchPipelineState of the run() in progress or returned: <<>> or <<[...]>>
    scored_pair         \* the last cosine_similarity call and its score: <<>> or <<[...]>>

storeVars == <<documents, embeddings, images, index, nextId>>
ghostVars == <<saved, failedSaves, deletedOk, deleteCalled, faulted>>
writerVars == <<wpc, wid, wdata, wsnap>>
ingestVars == <<pc, task, state, req, errorStore, remoteStore, runs, hist>>
assignVars == <<categories, locations, location_mappings, gen, gcalls, ensured, last,
                assignments, pair>>
searchVars == <<found, assembled, query_state, scored_pair>>
vars == <<storeVars, ghostVars, writerVars, ingestVars, assignVars, searchVars>>

\* ------------------------------------------------------------- helpers
Take(s, n) == SubSeq(s, 1, IF Len(s) < n THEN Len(s) ELSE n)

Remove(f, x) == [y \in DOMAIN f \ {x} |-> f[y]]

RECURSIVE FilterReversed(_, _)
FilterReversed(lst, id) ==
    IF lst = <<>> THEN <<>>
    ELSE FilterReversed(Tail(lst), id) \o
         (IF Head(lst).id # id THEN <<Head(lst)>> ELSE <<>>)

RECURSIVE Filter(_, _)
\* [d for d in lst if d["id"] != doc_id]
Filter(lst, id) ==
    IF lst = <<>> THEN <<>>
    ELSE IF Head(lst).id # id THEN <<Head(lst)>> \o Filter(Tail(lst), id)
         ELSE Filter(Tail(lst), id)

\* ------------------------------------------------------------- index file
EmptyDocs == [i \in {} |-> 0]

\* _write_index({}): a JSON object with no keys. A missing owner key reads as
\* the empty list and a missing "documents" key as the empty map: the code reads
\* both with .get(key, default) or creates them before use.
EmptyIndex == [kind |-> "dict", owner |-> [o \in OwnerKeys |-> <<>>], documents |-> EmptyDocs]

\* index.json that json.load rejects (truncated or garbled file)
UnreadableIndex == [kind |-> "unreadable", owner |-> [o \in OwnerKeys |-> <<>>], documents |-> EmptyDocs]

\* index.json holding valid JSON that is not an object (a list)
ListIndex == [kind |-> "list", owner |-> [o \in OwnerKeys |-> <<>>], documents |-> EmptyDocs]

\* _read_index raises
ReadIndexRaises(idx) == idx.kind = "unreadable"

\* ------------------------------------------------------------- document_data
\* The recommendation dict the pipeline stores: it has no "suggested_location"
\* key, so rec_data.get("suggested_location") is None.
SampleRecommendation ==
    [category_code |-> "TAX", location_id |-> 1,
     suggested_location |-> "None", suggested_tags |-> <<"tax">>]

\* document_data dictionaries passed to save_document. A field holds the
\* marker of a missing key where the code reads it with .get().
SampleDocs ==
    { \* text and embedding, dimension left to default to len(embedding)
      [owner_id |-> 1, source |-> "a.jpg", image_path |-> <<[ext |-> ".jpg", available |-> TRUE]>>,
       extracted_text |-> <<<<1, 2>>>>, ocr_confidence |-> 90,
       embedding |-> <<1, 2>>, embedding_dimension |-> AbsentDim,
       recommendation_data |-> <<SampleRecommendation>>, recommendation_status |-> "llm_success",
       processing_steps |-> <<"OCR">>, status |-> "completed"],
      \* nothing but an owner
      [owner_id |-> 2, source |-> "None", image_path |-> <<>>,
       extracted_text |-> <<>>, ocr_confidence |-> 0,
       embedding |-> <<>>, embedding_dimension |-> AbsentDim,
       recommendation_data |-> <<>>, recommendation_status |-> "None",
       processing_steps |-> <<>>, status |-> Absent],
      \* a non-empty embedding declared with dimension 0
      [owner_id |-> 1, source |-> "c.tiff", image_path |-> <<[ext |-> ".tiff", available |-> TRUE]>>,
       extracted_text |-> <<<<3>>>>, ocr_confidence |-> 50,
       embedding |-> <<3>>, embedding_dimension |-> 0,
       recommendation_data |-> <<>>, recommendation_status |-> "None",
       processing_steps |-> <<>>, status |-> "completed"],
      \* no owner, an explicit dimension, an image source that cannot be fetched
      [owner_id |-> NoOwner, source |-> "http://x/d", image_path |-> <<[ext |-> "", available |-> FALSE]>>,
       extracted_text |-> <<<<1, 2>>>>, ocr_confidence |-> 90,
       embedding |-> <<4, 5>>, embedding_dimension |-> 2,
       recommendation_data |-> <<>>, recommendation_status |-> "None",
       processing_steps |-> <<>>, status |-> "ocr_completed"] }

\* ------------------------------------------------------------- save_document
\* embedding_dimension = document_data.get("embedding_dimension",
\*                                         len(embedding) if embedding else 0)
EmbeddingDimension(d) ==
    IF d.embedding_dimension = AbsentDim THEN Len(d.embedding) ELSE d.embedding_dimension

\* save_image: never raises; returns the saved path (<<doc_id, ext>>) or None
save_image(imgs, image_path, doc_id) ==
    IF image_path = <<>> THEN [path |-> <<>>, images |-> imgs]
    ELSE LET src == image_path[1]
             ext == IF src.ext = "" THEN ".jpg" ELSE src.ext
         IN IF src.available
            THEN [path |-> <<<<doc_id, ext>>>>, images |-> imgs \cup {<<doc_id, ext>>}]
            ELSE [path |-> <<>>, images |-> imgs]

\* "has_embedding": len(embedding) > 0
HasEmbedding(embedding) == Len(embedding) > 0

\* document_record built by save_document
DocumentRecord(doc_id, d, saved_image_path) ==
    [id |-> doc_id,
     owner_id |-> d.owner_id,
     source |-> d.source,
     image_path |-> saved_image_path,
     extracted_text |-> IF d.extracted_text = <<>> THEN <<>> ELSE d.extracted_text[1],
     ocr_confidence |-> d.ocr_confidence,
     has_embedding |-> HasEmbedding(d.embedding),
     embedding_dimension |-> EmbeddingDimension(d),
     recommendation_data |-> d.recommendation_data,
     recommendation_status |-> d.recommendation_status,
     metadata |-> [processing_steps |-> d.processing_steps,
                   status |-> IF d.status = Absent THEN "unknown" ELSE d.status]]

\* _save_embedding returns False without writing
SaveEmbeddingSkips(embedding, embedding_dimension) ==
    Len(embedding) = 0 \/ embedding_dimension = 0

\* _save_embedding: the embeddings directory afterwards
SaveEmbedding(embs, doc_id, embedding, embedding_dimension) ==
    IF SaveEmbeddingSkips(embedding, embedding_dimension) THEN embs
    ELSE (doc_id :> [document_id |-> doc_id, embedding |-> embedding,
                     dimension |-> embedding_dimension]) @@ embs

\* index_entry built by save_document
IndexEntry(rec) ==
    [id |-> rec.id,
     owner_id |-> rec.owner_id,
     has_embedding |-> rec.has_embedding,
     text_preview |-> Take(rec.extracted_text, PreviewLen),
     suggested_location |-> IF rec.recommendation_data # <<>>
                            THEN rec.recommendation_data[1].suggested_location ELSE Absent,
     suggested_tags |-> IF rec.recommendation_data # <<>>
                        THEN rec.recommendation_data[1].suggested_tags ELSE <<>>]

\* index[owner_id].append(index_entry); index["documents"][doc_id] = index_entry
AddToIndex(idx, rec) ==
    [idx EXCEPT !.owner[rec.owner_id] = Append(@, IndexEntry(rec)),
                !.documents = (rec.id :> IndexEntry(rec)) @@ @]

SaveFaults == {"none", "body", "embedding", "index_open", "index_dump"}

\* save_document as one call on the store st = [documents, embeddings, images,
\* index]; fault names the file operation that raises (an OSError), if any.
\* Result: the store afterwards and whether the call raised.
SaveDocumentResult(st, doc_id, d, fault) ==
    LET img == save_image(st.images, d.image_path, doc_id)
        rec == DocumentRecord(doc_id, d, img.path)
        s0 == [st EXCEPT !.images = img.images]
        s1 == [s0 EXCEPT !.documents = (doc_id :> rec) @@ @]
        s2 == [s1 EXCEPT !.embeddings =
                    IF Len(d.embedding) > 0
                    THEN SaveEmbedding(@, doc_id, d.embedding, rec.embedding_dimension)
                    ELSE @]
    IN IF fault = "body" THEN [st |-> s0, raised |-> TRUE]
       ELSE IF fault = "embedding" THEN [st |-> s1, raised |-> TRUE]
       ELSE IF s2.index.kind # "dict" THEN [st |-> s2, raised |-> TRUE]
       ELSE IF fault = "index_open" THEN [st |-> s2, raised |-> TRUE]
       ELSE IF fault = "index_dump"
            THEN [st |-> [s2 EXCEPT !.index = UnreadableIndex], raised |-> TRUE]
       ELSE [st |-> [s2 EXCEPT !.index = AddToIndex(@, rec)], raised |-> FALSE]

\* the fault can happen: the file operation it names is reached
SaveFaultApplies(d, fault) ==
    fault = "embedding" =>
        ~SaveEmbeddingSkips(d.embedding, EmbeddingDimension(d))

\* ------------------------------------------------------------- delete_document
RemoveFromIndexGlobalOnly(idx, doc_id) ==
    [idx EXCEPT !.documents = Remove(@, doc_id)]

\* owner_id = str(doc_entry.get("owner_id"));
\* index[owner_id] = [d for d in index[owner_id] if d["id"] != doc_id];
\* del index["documents"][doc_id]
RemoveFromIndex(idx, doc_id) ==
    LET owner_id == idx.documents[doc_id].owner_id
    IN [idx EXCEPT !.owner[owner_id] = Filter(@, doc_id),
                   !.documents = Remove(@, doc_id)]

RemoveEmbeddingKeepsFile(embs, doc_id) == embs

\* if embedding_file.exists(): embedding_file.unlink()
RemoveEmbedding(embs, doc_id) == Remove(embs, doc_id)

RECURSIVE FirstImageExt(_, _, _)
\* the first extension of image_extensions, from position i, with an image file
\* for doc_id; "" when there is none
FirstImageExt(imgs, doc_id, i) ==
    IF i > Len(ImageExtensions) THEN ""
    ELSE IF <<doc_id, ImageExtensions[i]>> \in imgs THEN ImageExtensions[i]
    ELSE FirstImageExt(imgs, doc_id, i + 1)

DeleteFaults == {"none", "body", "embedding", "image", "index_open", "index_dump"}

\* delete_document as one call; fault names the file operation that raises.
\* Result: the store afterwards and the value returned.
DeleteDocumentResult(st, doc_id, fault) ==
    IF doc_id \notin DOMAIN st.documents THEN [st |-> st, ret |-> FALSE]
    ELSE IF fault = "body" THEN [st |-> st, ret |-> FALSE]
    ELSE
    LET s1 == [st EXCEPT !.documents = Remove(@, doc_id)]
        s2 == [s1 EXCEPT !.embeddings = RemoveEmbedding(@, doc_id)]
        ext == FirstImageExt(st.images, doc_id, 1)
        s3 == [s2 EXCEPT !.images = @ \ {<<doc_id, ext>>}]
    IN IF fault = "embedding" /\ doc_id \in DOMAIN st.embeddings
          THEN [st |-> s1, ret |-> FALSE]
       ELSE IF fault = "image" /\ ext # "" THEN [st |-> s2, ret |-> FALSE]
       ELSE IF ReadIndexRaises(s3.index) THEN [st |-> s3, ret |-> FALSE]
       \* "documents" in index is False for a list, and for an id not indexed
       ELSE IF s3.index.kind = "list" \/ doc_id \notin DOMAIN s3.index.documents
            THEN [st |-> s3, ret |-> TRUE]
       ELSE IF fault = "index_open" THEN [st |-> s3, ret |-> FALSE]
       ELSE IF fault = "index_dump"
            THEN [st |-> [s3 EXCEPT !.index = UnreadableIndex], ret |-> FALSE]
       ELSE [st |-> [s3 EXCEPT !.index = RemoveFromIndex(@, doc_id)], ret |-> TRUE]

\* the fault can happen: delete_document reaches the file operation it names
DeleteFaultApplies(st, doc_id, fault) ==
    \/ fault = "none"
    \/ /\ doc_id \in DOMAIN st.documents
       /\ fault = "embedding" => doc_id \in DOMAIN st.embeddings
       /\ fault = "image" => FirstImageExt(st.images, doc_id, 1) # ""
       /\ fault \in {"index_open", "index_dump"} =>
              st.index.kind = "dict" /\ doc_id \in DOMAIN st.index.documents

\* ------------------------------------------------------------- queries
Store == [documents |-> documents, embeddings |-> embeddings,
          images |-> images, index |-> index]

\* _load_embedding: the embedding record, or None
load_embedding(st, doc_id) ==
    IF doc_id \in DOMAIN st.embeddings THEN <<st.embeddings[doc_id]>> ELSE <<>>

\* get_document: None, or the document with document["embedding"] when asked
get_document(st, doc_id, include_embedding) ==
    IF doc_id \notin DOMAIN st.documents THEN <<>>
    ELSE <<[document |-> st.documents[doc_id],
            embedding |-> IF include_embedding
                          THEN IF load_embedding(st, doc_id) # <<>>
                               THEN <<load_embedding(st, doc_id)[1].embedding>>
                               ELSE << <<>> >>
                          ELSE <<>>]>>

\* get_embedding: None, or the vector
get_embedding(st, doc_id) ==
    IF load_embedding(st, doc_id) # <<>>
    THEN <<load_embedding(st, doc_id)[1].embedding>> ELSE <<>>

RECURSIVE GlobalEntries(_, _)
\* list(index["documents"].values()): a dict lists its keys in insertion order,
\* which is the order of the ids
GlobalEntries(docs, i) ==
    IF \A j \in DOMAIN docs : j < i THEN <<>>
    ELSE (IF i \in DOMAIN docs THEN <<docs[i]>> ELSE <<>>) \o GlobalEntries(docs, i + 1)

\* list_documents: [raised, value]; _read_index raises on an unreadable file
\* and index.get raises on a list
list_documents(st, owner_id) ==
    IF st.index.kind # "dict" THEN [raised |-> TRUE, value |-> <<>>]
    ELSE IF owner_id # NoOwner THEN [raised |-> FALSE, value |-> st.index.owner[owner_id]]
    ELSE [raised |-> FALSE, value |-> GlobalEntries(st.index.documents, 1)]

RECURSIVE LoadWithEmbeddingsStopsAtMissing(_, _)
LoadWithEmbeddingsStopsAtMissing(st, entries) ==
    IF entries = <<>> THEN <<>>
    ELSE LET doc_id == Head(entries).id
             doc == get_document(st, doc_id, FALSE)
             embedding == get_embedding(st, doc_id)
             rest == LoadWithEmbeddingsStopsAtMissing(st, Tail(entries))
         IN IF ~Head(entries).has_embedding THEN rest
            ELSE IF doc = <<>> THEN <<>>
            ELSE IF embedding = <<>> \/ embedding = << <<>> >> THEN <<>>
            ELSE <<[id |-> doc[1].document.id,
                    text |-> doc[1].document.extracted_text,
                    embedding |-> embedding[1],
                    metadata |-> doc[1].document.metadata,
                    recommendation |-> doc[1].document.recommendation_data]>> \o rest

RECURSIVE LoadWithEmbeddings(_, _)
\* the loop of get_all_embeddings over the index entries found
LoadWithEmbeddings(st, entries) ==
    IF entries = <<>> THEN <<>>
    ELSE LET doc_id == Head(entries).id
             doc == get_document(st, doc_id, FALSE)
             embedding == get_embedding(st, doc_id)
             rest == LoadWithEmbeddings(st, Tail(entries))
         IN IF ~Head(entries).has_embedding THEN rest
            ELSE IF doc = <<>> THEN rest
            ELSE IF embedding = <<>> \/ embedding = << <<>> >> THEN rest
            ELSE <<[id |-> doc[1].document.id,
                    text |-> doc[1].document.extracted_text,
                    embedding |-> embedding[1],
                    metadata |-> doc[1].document.metadata,
                    recommendation |-> doc[1].document.recommendation_data]>> \o rest

get_all_embeddingsIgnoresOwner(st, owner_id) ==
    IF st.index.kind # "dict" THEN [raised |-> TRUE, value |-> <<>>]
    ELSE [raised |-> FALSE,
          value |-> LoadWithEmbeddings(st, GlobalEntries(st.index.documents, 1))]

\* get_all_embeddings: [raised, value]
get_all_embeddings(st, owner_id) ==
    IF st.index.kind # "dict" THEN [raised |-> TRUE, value |-> <<>>]
    ELSE [raised |-> FALSE,
          value |-> LoadWithEmbeddings(st,
                        IF owner_id # NoOwner THEN st.index.owner[owner_id]
                        ELSE GlobalEntries(st.index.documents, 1))]

\* ------------------------------------------------------------- initial state
Writers == {1, 2}

\* the callers of RecommendationGenerator.generate
Generators == {1, 2}

MaxRetries == 3         \* max_retries = 3

\* no generate() call in progress
IdleGenerate ==
    [pc |-> "idle", attempt |-> 0, delay |-> 1, locations |-> <<>>, used |-> {},
     slept |-> <<>>, result |-> <<>>, posts |-> 0, failures |-> 0]

\* the state after LocalStorage() was constructed on an empty directory
Init ==
    /\ documents = EmptyDocs
    /\ embeddings = EmptyDocs
    /\ images = {}
    /\ index = EmptyIndex
    /\ nextId = 1
    /\ saved = EmptyDocs
    /\ failedSaves = {}
    /\ deletedOk = {}
    /\ deleteCalled = {}
    /\ faulted = FALSE
    /\ wpc = [w \in Writers |-> "idle"]
    /\ wid = [w \in Writers |-> NoDocId]
    /\ wdata = [w \in Writers |-> <<>>]
    /\ wsnap = [w \in Writers |-> <<>>]
    /\ pc = "idle"
    /\ task = [rec |-> "none", emb |-> "none"]
    /\ state = <<>>
    /\ req = <<>>
    /\ errorStore = <<>>
    /\ remoteStore = <<>>
    /\ runs = 0
    /\ hist = <<>>
    /\ categories = <<>>
    /\ locations = <<>>
    /\ location_mappings = <<>>
    /\ gen = [g \in Generators |-> IdleGenerate]
    /\ gcalls = 0
    /\ ensured = <<>>
    /\ assignments = <<>>
    /\ pair = <<>>
    /\ last = <<>>
    /\ found = <<>>
    /\ assembled = <<>>
    /\ query_state = <<>>
    /\ scored_pair = <<>>

\* ------------------------------------------------------------- LocalStorage calls
\* the files after a call that left the store st
SetStore(st) ==
    /\ documents' = st.documents
    /\ embeddings' = st.embeddings
    /\ images' = st.images
    /\ index' = st.index

\* save_document(d), with what its caller observes
CallSaveDocument(d, fault) ==
    LET r == SaveDocumentResult(Store, nextId, d, fault)
    IN /\ SetStore(r.st)
       /\ nextId' = nextId + 1
       /\ saved' = IF r.raised THEN saved ELSE (nextId :> d) @@ saved
       /\ failedSaves' = IF r.raised THEN failedSaves \cup {nextId} ELSE failedSaves
       /\ faulted' = (faulted \/ r.raised)
       /\ UNCHANGED <<deletedOk, deleteCalled>>

SaveDocument ==
    \E d \in SampleDocs, fault \in SaveFaults :
        /\ nextId <= MaxDocs
        /\ SaveFaultApplies(d, fault)
        /\ CallSaveDocument(d, fault)
        /\ UNCHANGED <<writerVars, assignVars, searchVars, ingestVars>>

DeleteDocument ==
    \E doc_id \in Ids, fault \in DeleteFaults :
        LET r == DeleteDocumentResult(Store, doc_id, fault)
        IN /\ DeleteFaultApplies(Store, doc_id, fault)
           /\ SetStore(r.st)
           /\ deleteCalled' = IF doc_id < nextId THEN deleteCalled \cup {doc_id} ELSE deleteCalled
           /\ deletedOk' = IF r.ret THEN deletedOk \cup {doc_id} ELSE deletedOk
           /\ faulted' = (faulted \/ (doc_id \in DOMAIN documents /\ ~r.ret))
           /\ UNCHANGED <<nextId, saved, failedSaves, writerVars, assignVars, searchVars, ingestVars>>

\* LocalStorage.__init__ on the existing directory (a restart of the service,
\* or migrate_embeddings.py): _ensure_index recreates an unreadable index
EnsureIndex ==
    /\ index' = IF ReadIndexRaises(index) THEN EmptyIndex ELSE index
    /\ UNCHANGED <<documents, embeddings, images, nextId, saved, failedSaves,
                   deletedOk, deleteCalled, faulted, writerVars, assignVars, searchVars, ingestVars>>

\* index.json is damaged from outside the calls (the case _ensure_index and
\* load_location_mappings_from_index guard against)
CorruptIndex ==
    /\ index.kind = "dict"
    /\ index' \in {UnreadableIndex, ListIndex}
    /\ faulted' = TRUE
    /\ UNCHANGED <<documents, embeddings, images, nextId, saved, failedSaves,
                   deletedOk, deleteCalled, writerVars, assignVars, searchVars, ingestVars>>

Next == SaveDocument \/ DeleteDocument \/ EnsureIndex \/ CorruptIndex

Spec == Init /\ [][Next]_vars

\* ------------------------------------------------------------- PipelineState
RawText == <<1, 2, 3>>          \* the text the OCR capability extracts
CleanText == <<1, 2>>           \* what the cleaner makes of it
SampleVector == <<7, 8>>        \* the vector the embedding capability returns
SampleImage == [ext |-> ".png", available |-> TRUE]

NoId == [kind |-> "none", n |-> 0]
\* request.document_id: None, or the id of a row the storage service created
PassedDocumentIds == {NoId, [kind |-> "caller", n |-> 5]}

\* PipelineState(image_url, owner_id, document_id)
PipelineState(r) ==
    [image_url |-> r.image_url,
     owner_id |-> r.owner_id,
     document_id |-> r.document_id,
     ocr_result |-> <<>>,
     cleaned_text |-> <<>>,
     cleaning_info |-> <<>>,
     recommendation_result |-> <<>>,
     embedding |-> <<>>,
     embedding_status |-> "pending",
     processing_steps |-> <<>>,
     status |-> "initialized",
     error |-> "None"]

\* state.cleaned_text or state.ocr_result.text
CleanedOrRaw(st) ==
    IF st.cleaned_text = <<>> \/ st.cleaned_text[1] = <<>>
    THEN st.ocr_result[1].text ELSE st.cleaned_text[1]

\* text_to_use of step_recommendation and step_embedding; <<>> is a falsy text
TextToUse(st) ==
    IF st.cleaned_text # <<>> /\ st.cleaned_text[1] # <<>> THEN st.cleaned_text[1]
    ELSE IF st.ocr_result # <<>> THEN st.ocr_result[1].text
    ELSE <<>>

\* PipelineState.to_output_dict, with the image_path step_persist adds
ToOutputDict(st) ==
    [status |-> st.status,
     owner_id |-> st.owner_id,
     source |-> "doc.png",
     image_path |-> <<st.image_url>>,
     document_id |-> st.document_id,
     processing_steps |-> st.processing_steps,
     extracted_text |-> IF st.ocr_result # <<>> THEN <<CleanedOrRaw(st)>> ELSE <<>>,
     ocr_confidence |-> IF st.ocr_result # <<>> THEN st.ocr_result[1].confidence ELSE 0,
     cleaning_info |-> st.cleaning_info,
     recommendation_status |->
         IF st.recommendation_result # <<>> THEN st.recommendation_result[1].status ELSE "None",
     recommendation_data |->
         IF st.recommendation_result # <<>> /\ st.recommendation_result[1].status = "llm_success"
         THEN st.recommendation_result[1].recommendation ELSE <<>>,
     recommendation_error |->
         IF st.recommendation_result # <<>> /\ st.recommendation_result[1].status # "llm_success"
         THEN st.recommendation_result[1].error ELSE "None",
     embedding |-> st.embedding,
     embedding_dimension |-> IF st.embedding # <<>> THEN Len(st.embedding) ELSE AbsentDim,
     embedding_status |-> IF st.embedding # <<>> THEN st.embedding_status ELSE Absent,
     error |-> st.error]

OcrFailedOnlyWhenNone(result) == result = <<>>

\* not state.ocr_result or not state.ocr_result.text
OcrFailed(result) == result = <<>> \/ result[1].text = <<>>

IsFailedMissesRecommendation(status) ==
    status \in {"failed", "ocr_failed", "embedding_failed"}

\* is_failed of run(): the statuses routed to the error directory
IsFailed(status) ==
    status \in {"failed", "ocr_failed", "recommendation_failed", "embedding_failed"}

\* _get_failed_step
GetFailedStep(st) ==
    IF st.status \in {"failed", "ocr_failed"} THEN "OCR"
    ELSE IF st.status = "cleaning_failed" THEN "Cleaning"
    ELSE IF st.status = "recommendation_failed" THEN "Recommendation"
    ELSE IF st.status = "embedding_failed" THEN "Embedding"
    ELSE IF st.status = "persistence_failed" THEN "Persistence"
    ELSE "Unknown"

\* save_error_document(document_data, error_info): the record the error store
\* gains (the document plus failed step, status and step log)
ErrorDocument(st) ==
    [document_data |-> ToOutputDict(st),
     error_info |-> [status |-> st.status,
                     error |-> st.error,
                     failed_step |-> GetFailedStep(st),
                     processing_steps |-> st.processing_steps]]

TasksAfterCancelOnFailure(which, failed) ==
    IF failed THEN [rec |-> "done", emb |-> "done"] ELSE [task EXCEPT ![which] = "done"]

\* the two tasks once the step of task `which` has returned: its own task is
\* done, and gather(..., return_exceptions=True) leaves the other one alone
\* whether or not the step failed
TasksAfter(which, failed) == [task EXCEPT ![which] = "done"]

DocumentIdAfterForward(local_doc_id) == state[1].document_id

\* state.document_id = local_doc_id, assigned before the storage client is awaited
DocumentIdAtSave(local_doc_id) == [kind |-> "local", n |-> local_doc_id]

AfterCleaningStopsOnFailure(ok) == IF ok THEN "spawn" ELSE "done"

\* await self.step_cleaning(state): run() ignores what the step returns and
\* goes on to create the two tasks
AfterCleaning(ok) == "spawn"

AfterPersistRaisedPropagates == "raised"

\* where run() is once save_document or the storage client has raised inside
\* step_persist: the except clause returns False and run() goes on to return
AfterPersistRaised == "done"

GatherReadyFirstCompleted == task.rec = "done" \/ task.emb = "done"

\* await asyncio.gather(recommendation_task, embedding_task,
\*                      return_exceptions=True) returns
GatherReady == task.rec = "done" /\ task.emb = "done"

\* the position of event e in the event log of the run, 0 when it has not happened
Pos(e) == IF \E i \in 1..Len(hist) : hist[i] = e
          THEN CHOOSE i \in 1..Len(hist) : hist[i] = e ELSE 0

Happened(e) == Pos(e) > 0

\* ------------------------------------------------------------- concurrent writers
\* save_document run by writers that share the storage directory (worker
\* processes or threads; LocalStorage takes no lock). The files of one document
\* are private to its id, so a writer's steps are: everything up to the
\* embedding file, the read of index.json, the write of index.json.

\* lines 183-224: the id, the image, the body and the embedding
WriterBegin(w) ==
    \E d \in SampleDocs :
        /\ wpc[w] = "idle"
        /\ nextId <= MaxDocs
        /\ LET img == save_image(images, d.image_path, nextId)
               rec == DocumentRecord(nextId, d, img.path)
           IN /\ images' = img.images
              /\ documents' = (nextId :> rec) @@ documents
              /\ embeddings' = IF Len(d.embedding) > 0
                               THEN SaveEmbedding(embeddings, nextId, d.embedding,
                                                  rec.embedding_dimension)
                               ELSE embeddings
              /\ wdata' = [wdata EXCEPT ![w] = <<[d |-> d, rec |-> rec]>>]
        /\ wid' = [wid EXCEPT ![w] = nextId]
        /\ nextId' = nextId + 1
        /\ wpc' = [wpc EXCEPT ![w] = "read_index"]
        /\ UNCHANGED <<index, wsnap, ghostVars, ingestVars, assignVars, searchVars>>

\* line 227: index = self._read_index()
WriterReadIndex(w) ==
    /\ wpc[w] = "read_index"
    /\ wsnap' = [wsnap EXCEPT ![w] = <<index>>]
    /\ wpc' = [wpc EXCEPT ![w] = "write_index"]
    /\ UNCHANGED <<storeVars, wid, wdata, ghostVars, ingestVars, assignVars, searchVars>>

IndexReadAgainAtWrite(w) == index

\* the dict save_document updates and writes back: the one it read at line 227
IndexToUpdate(w) == wsnap[w][1]

\* lines 229-259: the entry is added to the dict read before and the file is
\* rewritten from it; a dict that is no JSON object makes the call raise
WriterWriteIndex(w) ==
    /\ wpc[w] = "write_index"
    /\ IF IndexToUpdate(w).kind = "dict"
       THEN /\ index' = AddToIndex(IndexToUpdate(w), wdata[w][1].rec)
            /\ saved' = (wid[w] :> wdata[w][1].d) @@ saved
            /\ UNCHANGED failedSaves
       ELSE /\ failedSaves' = failedSaves \cup {wid[w]}
            /\ UNCHANGED <<index, saved>>
    /\ wpc' = [wpc EXCEPT ![w] = "idle"]
    /\ wsnap' = [wsnap EXCEPT ![w] = <<>>]
    /\ wdata' = [wdata EXCEPT ![w] = <<>>]
    /\ wid' = [wid EXCEPT ![w] = NoDocId]
    /\ UNCHANGED <<documents, embeddings, images, nextId, deletedOk, deleteCalled,
                   faulted, ingestVars, assignVars, searchVars>>

NextWriters ==
    \E w \in Writers : WriterBegin(w) \/ WriterReadIndex(w) \/ WriterWriteIndex(w)

SpecWriters == Init /\ [][NextWriters]_vars

\* ------------------------------------------------------------- IngestionPipeline.run
\* pc is the place of run(): idle, ocr, ocr_wait, cleaning, cleaning_wait,
\* spawn, gather, persist, remote_wait, done. task holds the two tasks of step
\* 3: none, created, running, done. hist logs the run's events: x_start when a
\* step calls its capability, x_end / x_fail when the capability has succeeded /
\* failed (raised, or returned nothing usable) and the step has returned, x_skip
\* when the step returned without calling it, persist_start / persist_error
\* when step_persist writes to the main store / the error store, remote_end /
\* remote_fail when the storage client has returned / raised.
Log(e) == hist' = Append(hist, e)

SetState(st) == state' = <<st>>

\* run(image_url, owner_id, document_id, skip_persist) is called
StartRun ==
    \E o \in Owners, id \in PassedDocumentIds, skip \in BOOLEAN :
        /\ pc = "idle"
        /\ runs < MaxRuns
        /\ runs' = runs + 1
        /\ req' = <<[image_url |-> SampleImage, owner_id |-> o, document_id |-> id,
                     skip_persist |-> skip, store0 |-> Store, errors0 |-> Len(errorStore)]>>
        /\ SetState(PipelineState([image_url |-> SampleImage, owner_id |-> o, document_id |-> id]))
        /\ pc' = "ocr"
        /\ task' = [rec |-> "none", emb |-> "none"]
        /\ hist' = <<>>
        /\ UNCHANGED <<storeVars, ghostVars, writerVars, assignVars, searchVars, errorStore, remoteStore>>

\* step_ocr calls the extractor
OcrCall ==
    /\ pc = "ocr"
    /\ pc' = "ocr_wait"
    /\ Log("ocr_start")
    /\ UNCHANGED <<storeVars, ghostVars, writerVars, assignVars, searchVars, task, state, req, errorStore,
                   remoteStore, runs>>

\* the extractor returns or raises; step_ocr returns; on False run() returns
OcrReturn ==
    \E outcome \in {"text", "empty", "none", "raise"} :
        /\ pc = "ocr_wait"
        /\ LET st == state[1]
               result == IF outcome = "text" THEN <<[text |-> RawText, confidence |-> 90]>>
                         ELSE IF outcome = "empty" THEN <<[text |-> <<>>, confidence |-> 0]>>
                         ELSE <<>>
           IN IF outcome = "raise"
              THEN /\ SetState([st EXCEPT !.status = "failed", !.error = "OCR step failed"])
                   /\ pc' = "done"
              ELSE IF OcrFailed(result)
              THEN /\ SetState([st EXCEPT !.ocr_result = result, !.status = "failed",
                                          !.error = "OCR Extraction Failed or returned empty text."])
                   /\ pc' = "done"
              ELSE /\ SetState([st EXCEPT !.ocr_result = result,
                                          !.processing_steps = Append(@, "OCR"),
                                          !.status = "ocr_completed"])
                   /\ pc' = "cleaning"
        /\ Log(IF outcome = "text" THEN "ocr_end" ELSE "ocr_fail")
        /\ UNCHANGED <<storeVars, ghostVars, writerVars, assignVars, searchVars, task, req, errorStore,
                       remoteStore, runs>>

\* step_cleaning: without OCR text it returns False at once, else it calls the cleaner
CleaningCall ==
    /\ pc = "cleaning"
    /\ IF OcrFailed(state[1].ocr_result)
       THEN pc' = "spawn" /\ UNCHANGED hist
       ELSE pc' = "cleaning_wait" /\ Log("cleaning_start")
    /\ UNCHANGED <<storeVars, ghostVars, writerVars, assignVars, searchVars, task, state, req, errorStore,
                   remoteStore, runs>>

\* the cleaner returns its dict (with a cleaned text, an empty one, or no
\* "cleaned_text" key) or raises; step_cleaning returns True either way
CleaningReturn ==
    \E outcome \in {"cleaned", "empty", "nokey", "raise"} :
        /\ pc = "cleaning_wait"
        /\ LET st == state[1]
               cleaned == IF outcome = "cleaned" THEN CleanText
                          ELSE IF outcome = "empty" THEN <<>>
                          ELSE st.ocr_result[1].text
           IN IF outcome = "raise"
              THEN /\ SetState([st EXCEPT !.status = "cleaning_failed",
                                          !.error = "Cleaning step failed",
                                          !.cleaned_text = <<st.ocr_result[1].text>>])
              ELSE /\ SetState([st EXCEPT !.cleaned_text = <<cleaned>>,
                                          !.cleaning_info = <<[cleaned_text |-> outcome]>>,
                                          !.processing_steps = Append(@, "Cleaning"),
                                          !.status = "cleaning_completed"])
        /\ Log(IF outcome = "raise" THEN "cleaning_fail" ELSE "cleaning_end")
        /\ pc' = AfterCleaning(outcome # "raise")
        /\ UNCHANGED <<storeVars, ghostVars, writerVars, assignVars, searchVars, task, req, errorStore,
                       remoteStore, runs>>

\* asyncio.create_task twice; run() then awaits gather
Spawn ==
    /\ pc = "spawn"
    /\ task' = [rec |-> "created", emb |-> "created"]
    /\ pc' = "gather"
    /\ UNCHANGED <<storeVars, ghostVars, writerVars, assignVars, searchVars, state, req, errorStore,
                   remoteStore, runs, hist>>

\* the recommendation task starts: step_recommendation up to its await
RecommendationCall ==
    /\ task.rec = "created"
    /\ IF TextToUse(state[1]) = <<>>
       THEN task' = [task EXCEPT !.rec = "done"] /\ Log("rec_skip")
       ELSE task' = [task EXCEPT !.rec = "running"] /\ Log("rec_start")
    /\ UNCHANGED <<storeVars, ghostVars, writerVars, assignVars, searchVars, pc, state, req, errorStore,
                   remoteStore, runs>>

\* the generator returns a result (llm_success or llm_error) or raises
RecommendationReturn ==
    \E outcome \in {"llm_success", "llm_error", "raise"} :
        /\ task.rec = "running"
        /\ LET st == state[1]
           IN IF outcome = "raise"
              THEN /\ SetState([st EXCEPT !.status = "recommendation_failed",
                                          !.error = "Recommendation step failed"])
              ELSE IF outcome = "llm_success"
              THEN /\ SetState([st EXCEPT
                          !.recommendation_result =
                              <<[status |-> "llm_success",
                                 recommendation |-> <<SampleRecommendation>>,
                                 error |-> "None"]>>,
                          !.processing_steps = Append(@, "Recommendation"),
                          !.status = "llm_recommendation_completed"])
              ELSE /\ SetState([st EXCEPT
                          !.recommendation_result =
                              <<[status |-> "llm_error", recommendation |-> <<>>,
                                 error |-> "llm"]>>,
                          !.processing_steps = Append(@, "Recommendation"),
                          !.status = "recommendation_failed"])
        /\ Log(IF outcome = "llm_success" THEN "rec_end" ELSE "rec_fail")
        /\ task' = TasksAfter("rec", outcome # "llm_success")
        /\ UNCHANGED <<storeVars, ghostVars, writerVars, assignVars, searchVars, pc, req, errorStore,
                       remoteStore, runs>>

\* the embedding task starts (the event loop starts the tasks in the order of
\* their creation): step_embedding up to its await
EmbeddingCall ==
    /\ task.emb = "created"
    /\ task.rec # "created"
    /\ IF TextToUse(state[1]) = <<>>
       THEN task' = [task EXCEPT !.emb = "done"] /\ Log("emb_skip")
       ELSE task' = [task EXCEPT !.emb = "running"] /\ Log("emb_start")
    /\ UNCHANGED <<storeVars, ghostVars, writerVars, assignVars, searchVars, pc, state, req, errorStore,
                   remoteStore, runs>>

\* the embedding generator returns a vector, an empty one, or raises
EmbeddingReturn ==
    \E outcome \in {"vector", "empty", "raise"} :
        /\ task.emb = "running"
        /\ LET st == state[1]
           IN IF outcome = "raise"
              THEN /\ SetState([st EXCEPT !.embedding_status = "failed",
                                          !.error = "Embedding step failed"])
              ELSE IF outcome = "vector"
              THEN /\ SetState([st EXCEPT !.embedding = SampleVector,
                                          !.embedding_status = "success",
                                          !.processing_steps = Append(@, "Embedding")])
              ELSE /\ SetState([st EXCEPT !.embedding = <<>>,
                                          !.embedding_status = "failed",
                                          !.error = "Embedding generation failed, returned empty vector."])
        /\ Log(IF outcome = "vector" THEN "emb_end" ELSE "emb_fail")
        /\ task' = TasksAfter("emb", outcome # "vector")
        /\ UNCHANGED <<storeVars, ghostVars, writerVars, assignVars, searchVars, pc, req, errorStore,
                       remoteStore, runs>>

\* gather returns; with skip_persist run() returns
Gather ==
    /\ pc = "gather"
    /\ GatherReady
    /\ pc' = IF req[1].skip_persist THEN "done" ELSE "persist"
    /\ UNCHANGED <<storeVars, ghostVars, writerVars, assignVars, searchVars, task, state, req, errorStore,
                   remoteStore, runs, hist>>

\* step_persist(state, is_error=True): the document goes to the error store
PersistError ==
    /\ pc = "persist"
    /\ IsFailed(state[1].status)
    /\ errorStore' = Append(errorStore, ErrorDocument(state[1]))
    /\ SetState([state[1] EXCEPT !.document_id = [kind |-> "error", n |-> Len(errorStore) + 1]])
    /\ Log("persist_error")
    /\ pc' = "done"
    /\ UNCHANGED <<storeVars, ghostVars, writerVars, assignVars, searchVars, task, req, remoteStore, runs>>

\* step_persist(state, is_error=False) up to its await: save_document, which
\* returns the id or raises
PersistLocal ==
    \E fault \in SaveFaults :
        /\ pc = "persist"
        /\ ~IsFailed(state[1].status)
        /\ nextId <= MaxDocs
        /\ SaveFaultApplies(ToOutputDict(state[1]), fault)
        /\ CallSaveDocument(ToOutputDict(state[1]), fault)
        /\ Log("persist_start")
        /\ IF SaveDocumentResult(Store, nextId, ToOutputDict(state[1]), fault).raised
           THEN /\ SetState([state[1] EXCEPT !.status = "persistence_failed",
                                             !.error = "Persistence step failed"])
                /\ pc' = AfterPersistRaised
           ELSE /\ SetState([state[1] EXCEPT !.document_id = DocumentIdAtSave(nextId)])
                /\ pc' = "remote_wait"
        /\ UNCHANGED <<writerVars, assignVars, searchVars, task, req, errorStore, remoteStore, runs>>

\* the storage client returns the remote id or raises
RemoteReturn ==
    \E outcome \in {"ok", "raise"} :
        /\ pc = "remote_wait"
        /\ IF outcome = "ok"
           THEN /\ remoteStore' = Append(remoteStore, state[1].document_id.n)
                /\ SetState([state[1] EXCEPT !.processing_steps = Append(@, "Persistence"),
                                             !.status = "completed"])
           ELSE /\ SetState([state[1] EXCEPT !.status = "persistence_failed",
                                             !.error = "Persistence step failed"])
                /\ UNCHANGED remoteStore
        /\ pc' = IF outcome = "ok" THEN "done" ELSE AfterPersistRaised
        /\ Log(IF outcome = "ok" THEN "remote_end" ELSE "remote_fail")
        /\ UNCHANGED <<storeVars, ghostVars, writerVars, assignVars, searchVars, task, req, errorStore, runs>>

\* run() has returned state.to_output_dict(); its PipelineState is dropped and
\* the pipeline is free for the next call
Return ==
    /\ pc = "done"
    /\ pc' = "idle"
    /\ state' = <<>>
    /\ req' = <<>>
    /\ hist' = <<>>
    /\ task' = [rec |-> "none", emb |-> "none"]
    /\ UNCHANGED <<storeVars, ghostVars, writerVars, assignVars, searchVars, errorStore, remoteStore, runs>>

NextIngest ==
    \/ StartRun \/ OcrCall \/ OcrReturn \/ CleaningCall \/ CleaningReturn \/ Spawn
    \/ RecommendationCall \/ RecommendationReturn \/ EmbeddingCall \/ EmbeddingReturn
    \/ Gather \/ PersistError \/ PersistLocal \/ RemoteReturn \/ Return

SpecIngest == Init /\ [][NextIngest]_vars

\* the steps of a run that was started: the event loop runs every ready
\* coroutine and every capability call returns or raises
RunSteps ==
    \/ OcrCall \/ OcrReturn \/ CleaningCall \/ CleaningReturn \/ Spawn
    \/ RecommendationCall \/ RecommendationReturn \/ EmbeddingCall \/ EmbeddingReturn
    \/ Gather \/ PersistError \/ PersistLocal \/ RemoteReturn

SpecIngestLive == SpecIngest /\ WF_vars(RunSteps)

\* ------------------------------------------------------------- category_config
\* ALLOWED_CATEGORY_TYPES, in the order of the list
ALLOWED_CATEGORY_TYPES ==
    <<"TAX", "BANK", "REC", "UTIL", "INS", "VISA", "MED", "EDU", "LEG", "WORK", "MISC">>

\* CATEGORY_LOCATION_KEYWORDS
CATEGORY_LOCATION_KEYWORDS ==
    [TAX |-> {"tax", "financial", "desk", "office", "filing", "archive"},
     VISA |-> {"immigration", "passport", "visa", "safe", "important", "legal"},
     MED |-> {"medical", "medicine", "health", "prescription", "bathroom", "kitchen"},
     INS |-> {"insurance", "medical", "health", "kitchen", "cabinet"},
     EDU |-> {"education", "diploma", "transcript", "certificate", "school", "archive"},
     LEG |-> {"legal", "contract", "agreement", "law", "safe", "important"},
     REC |-> {"receipt", "purchase", "expense", "transaction", "financial"},
     BANK |-> {"bank", "banking", "account", "statement", "financial", "safe"},
     UTIL |-> {"utility", "bill", "electricity", "water", "gas", "internet"},
     WORK |-> {"work", "employment", "contract", "job", "office", "filing"},
     MISC |-> {"unknown", "misc", "other", "unreadable", "uncategorized", "illegible"}]

\* str.upper() (and .strip()) on the codes the model uses
upper(s) ==
    IF s = "tax" THEN "TAX"
    ELSE IF s = "med" THEN "MED"
    ELSE IF s = "xyz" THEN "XYZ"
    ELSE IF s = "new_category" THEN "NEW_CATEGORY"
    ELSE s

\* name.upper().replace(" ", "")[:3] on the names the model uses
NameCode(name) ==
    IF name = "Pet Papers" THEN "PET"
    ELSE IF name = "Tax Forms" THEN "TAX"
    ELSE IF name = "" THEN ""
    ELSE "XYZ"

AllowedCodes == {ALLOWED_CATEGORY_TYPES[i] : i \in 1..Len(ALLOWED_CATEGORY_TYPES)}

\* is_allowed_category_type
is_allowed_category_type(code) == upper(code) \in AllowedCodes

\* get_category_keywords
get_category_keywords(code) ==
    IF upper(code) \in DOMAIN CATEGORY_LOCATION_KEYWORDS
    THEN CATEGORY_LOCATION_KEYWORDS[upper(code)] ELSE {}

\* ------------------------------------------------------------- categories
\* {cat.get("code", "").upper() for cat in categories}
ExistingCodes(cats) == {upper(cats[i].code) : i \in 1..Len(cats)}

\* max((cat.get("id", 0) for cat in categories), default=0)
MaxId(recs) ==
    IF recs = <<>> THEN 0
    ELSE CHOOSE m \in {recs[i].id : i \in 1..Len(recs)} :
             \A i \in 1..Len(recs) : recs[i].id <= m

\* the while loop of add_new_category: original, original1, original2, ...
RECURSIVE NameDerivedCode(_, _, _)
NameDerivedCode(original, counter, existing) ==
    LET code == IF counter = 0 THEN original ELSE original \o ToString(counter)
    IN IF code \in existing THEN NameDerivedCode(original, counter + 1, existing) ELSE code

\* the codes add_new_category can give the new category. With a missing or
\* non-canonical code it takes the first canonical code, in the iteration
\* order of a set of strings, that no category has: any of them can come
\* first; with none left it derives a code from the name.
NewCategoryCodes(cats, name, code) ==
    IF code = "" \/ ~is_allowed_category_type(code)
    THEN IF AllowedCodes \ ExistingCodes(cats) # {}
         THEN AllowedCodes \ ExistingCodes(cats)
         ELSE {NameDerivedCode(NameCode(name), 0, ExistingCodes(cats))}
    ELSE {code}

\* add_new_category, given the code it settled on: the catalog afterwards
add_new_category(cats, name, new_code) ==
    Append(cats, [id |-> MaxId(cats) + 1, code |-> new_code, name |-> name])

\* the position of the first category whose code equals code, ignoring case; 0 if none
FindCategory(cats, code) ==
    IF \E i \in 1..Len(cats) : upper(cats[i].code) = upper(code)
    THEN CHOOSE i \in 1..Len(cats) :
             /\ upper(cats[i].code) = upper(code)
             /\ \A j \in 1..(i - 1) : upper(cats[j].code) # upper(code)
    ELSE 0

\* ensure_category_exists, given the code add_new_category would settle on:
\* the catalog afterwards and the category returned
ensure_category_exists(cats, code, name, new_code) ==
    IF FindCategory(cats, code) # 0
    THEN [categories |-> cats, category |-> cats[FindCategory(cats, code)]]
    ELSE [categories |-> add_new_category(cats, name, new_code),
          category |-> [id |-> MaxId(cats) + 1, code |-> new_code, name |-> name]]

\* ------------------------------------------------------------- locations and mappings
\* a location is [id, name, words]: words are the keywords of any category
\* that occur in the lower-cased "name description" text of the location.
\* A mapping is [id, location_id, category_id, priority, is_allowed]. An
\* Optional[int] is <<>> (None) or <<n>>.

DefaultPriority == 8    \* ensure_location_mapping(..., priority: int = 8)

\* Python's truth value of an Optional[int]: None and 0 are false
Truthy(opt) == opt # <<>> /\ opt[1] # 0

LocationIds(locs) == {locs[i].id : i \in 1..Len(locs)}

\* get_used_location_ids
get_used_location_ids(mappings) == {mappings[i].location_id : i \in 1..Len(mappings)}

\* the positions in mappings of the allowed mappings of the category
CategoryMappings(mappings, category_id) ==
    {i \in 1..Len(mappings) :
        mappings[i].category_id = category_id /\ mappings[i].is_allowed}

\* get_preferred_location_for_category: the stable sort by priority,
\* descending, puts first the earliest mapping of the highest priority
get_preferred_location_for_category(mappings, category_id) ==
    LET cm == CategoryMappings(mappings, category_id)
    IN IF cm = {} THEN <<>>
       ELSE LET best == CHOOSE i \in cm :
                            \A j \in cm : \/ mappings[j].priority < mappings[i].priority
                                          \/ (mappings[j].priority = mappings[i].priority /\ i <= j)
            IN <<mappings[best].location_id>>

\* score_location_for_category: the number of the category's keywords found in the text
score_location_for_category(category_code, location) ==
    Cardinality(get_category_keywords(category_code) \cap location.words)

\* max(locs, key=score): the first location of the highest score
BestLocation(category_code, locs) ==
    locs[CHOOSE i \in 1..Len(locs) :
             \A j \in 1..Len(locs) :
                 LET si == score_location_for_category(category_code, locs[i])
                     sj == score_location_for_category(category_code, locs[j])
                 IN sj < si \/ (sj = si /\ i <= j)]

\* [loc for loc in locations if loc.get("id") not in used_location_ids]
RECURSIVE UnusedLocations(_, _)
UnusedLocations(locs, used) ==
    IF locs = <<>> THEN <<>>
    ELSE IF Head(locs).id \in used THEN UnusedLocations(Tail(locs), used)
    ELSE <<Head(locs)>> \o UnusedLocations(Tail(locs), used)

\* find_best_unused_location
find_best_unused_location(category_code, locs, used) ==
    LET unused == UnusedLocations(locs, used)
    IN IF unused = <<>> THEN <<>>
       ELSE IF score_location_for_category(category_code, BestLocation(category_code, unused)) > 0
       THEN <<BestLocation(category_code, unused).id>>
       ELSE <<unused[1].id>>

\* find_best_location_any
find_best_location_any(category_code, locs) ==
    IF locs = <<>> THEN <<>>
    ELSE IF score_location_for_category(category_code, BestLocation(category_code, locs)) > 0
    THEN <<BestLocation(category_code, locs).id>>
    ELSE <<locs[1].id>>

\* ensure_location_mapping: the mapping list afterwards
ensure_location_mapping(mappings, category_id, location_id) ==
    IF \E i \in 1..Len(mappings) :
           mappings[i].category_id = category_id /\ mappings[i].location_id = location_id
    THEN mappings
    ELSE Append(mappings, [id |-> MaxId(mappings) + 1, location_id |-> location_id,
                           category_id |-> category_id, priority |-> DefaultPriority,
                           is_allowed |-> TRUE])

\* ------------------------------------------------------------- RecommendationGenerator.generate
\* get_category_suggestion(code).get("name", code)
SuggestionName(code) ==
    IF upper(code) = "LEG" THEN "Legal Documents"
    ELSE IF upper(code) = "REC" THEN "Receipts"
    ELSE IF upper(code) = "BANK" THEN "Banking Documents"
    ELSE IF upper(code) = "UTIL" THEN "Utility Bills"
    ELSE IF upper(code) = "WORK" THEN "Work Documents"
    ELSE IF upper(code) = "EDU" THEN "Education Documents"
    ELSE IF upper(code) = "MISC" THEN "Miscellaneous Documents"
    ELSE code

\* existing_codes[final_category_code]: the dict comprehension keeps, for a
\* code, the last category that has it
LastCategory(cats, code) ==
    cats[CHOOSE i \in 1..Len(cats) :
             /\ upper(cats[i].code) = code
             /\ \A j \in (i + 1)..Len(cats) : upper(cats[j].code) # code]

\* new_code = ALLOWED_CATEGORY_TYPES[0] if ALLOWED_CATEGORY_TYPES else "TAX":
\* the code generate() puts in place of a missing or non-canonical new_category_code
SubstituteCode(cats) == ALLOWED_CATEGORY_TYPES[1]

\* the new_code of the NEW_CATEGORY branch
NewCode(cats, p) ==
    IF upper(p.new_category_code) = "" \/ ~is_allowed_category_type(upper(p.new_category_code))
    THEN SubstituteCode(cats)
    ELSE upper(p.new_category_code)

\* the new_name of the NEW_CATEGORY branch
NewName(cats, p) ==
    IF p.new_category_name = "" \/ ~p.has_description
    THEN SuggestionName(NewCode(cats, p)) ELSE p.new_category_name

ResolutionBranchDefaultsToNew(cats, p) ==
    LET final_category_code == upper(p.category_code)
    IN IF final_category_code = "NEW_CATEGORY" THEN "new"
       ELSE IF final_category_code \in ExistingCodes(cats) THEN "existing"
       ELSE "canonical"

\* which branch of the category resolution the proposal takes
ResolutionBranch(cats, p) ==
    LET final_category_code == upper(p.category_code)
    IN IF final_category_code = "NEW_CATEGORY" THEN "new"
       ELSE IF final_category_code \in ExistingCodes(cats) THEN "existing"
       ELSE IF is_allowed_category_type(final_category_code) THEN "canonical"
       ELSE "unresolved"

\* the category resolution of generate(): the catalog afterwards and
\* final_category_id, final_category_code, is_new_category; raised when the code
\* resolves to nothing (ValueError). pick is the code add_new_category settles on.
ResolveCategory(cats, p, pick) ==
    LET final_category_code == upper(p.category_code)
        branch == ResolutionBranch(cats, p)
        ens == IF branch = "new"
                   THEN ensure_category_exists(cats, NewCode(cats, p), NewName(cats, p), pick)
                   ELSE ensure_category_exists(cats, final_category_code,
                                               SuggestionName(final_category_code), pick)
    IN IF branch = "unresolved"
       THEN [raised |-> TRUE, categories |-> cats, id |-> 0, code |-> final_category_code,
             is_new_category |-> FALSE]
       ELSE IF branch = "existing"
       THEN [raised |-> FALSE, categories |-> cats,
             id |-> LastCategory(cats, final_category_code).id,
             code |-> final_category_code, is_new_category |-> FALSE]
       ELSE [raised |-> FALSE, categories |-> ens.categories,
             id |-> ens.category.id, code |-> ens.category.code,
             is_new_category |-> TRUE]

\* the codes add_new_category can settle on in this resolution
ResolvePicks(cats, p) ==
    IF ResolutionBranch(cats, p) = "new"
    THEN NewCategoryCodes(cats, NewName(cats, p), NewCode(cats, p))
    ELSE NewCategoryCodes(cats, SuggestionName(upper(p.category_code)), upper(p.category_code))

\* the assignment with the stored preferred location taken as it is, whether
\* the catalog still holds it or not
AssignLocationKeepsStalePreferred(category_id, category_code, is_new_category, locs, used, mappings) ==
    LET preferred == get_preferred_location_for_category(mappings, category_id)
        unused == find_best_unused_location(category_code, locs, used)
        scored == IF Truthy(unused) THEN unused
                  ELSE find_best_location_any(category_code, locs)
        assigned == IF Truthy(preferred) THEN preferred ELSE scored
        persist == /\ category_id # 0
                   /\ Truthy(assigned)
                   /\ (is_new_category \/ ~Truthy(preferred))
    IN IF locs = <<>>
       THEN [location |-> <<>>, path |-> "none", used |-> used, mappings |-> mappings]
       ELSE [location |-> assigned,
             path |-> IF Truthy(preferred) THEN "preferred"
                      ELSE IF Truthy(unused) THEN "unused" ELSE "any",
             used |-> IF ~Truthy(preferred) /\ Truthy(unused) THEN used \cup {unused[1]} ELSE used,
             mappings |-> IF persist
                          THEN ensure_location_mapping(mappings, category_id, assigned[1])
                          ELSE mappings]

\* the location assignment of generate() for the resolved category, on the
\* catalog and the used ids the call read at its start and the mapping list
\* as it is now: the assigned location, the branch that chose it, the used
\* ids and the mapping list afterwards
AssignLocation(category_id, category_code, is_new_category, locs, used, mappings) ==
    LET valid_location_ids == LocationIds(locs)
        preferred == get_preferred_location_for_category(mappings, category_id)
        use_preferred == Truthy(preferred) /\ preferred[1] \in valid_location_ids
        unused == find_best_unused_location(category_code, locs, used)
        scored == IF Truthy(unused) THEN unused
                  ELSE find_best_location_any(category_code, locs)
        chosen == IF use_preferred THEN preferred ELSE scored
        assigned == IF Truthy(chosen) /\ chosen[1] \in valid_location_ids
                    THEN chosen ELSE <<locs[1].id>>
        persist == /\ category_id # 0
                   /\ Truthy(assigned)
                   /\ (is_new_category \/ ~Truthy(preferred))
    IN IF locs = <<>>
       THEN [location |-> <<>>, path |-> "none", used |-> used, mappings |-> mappings]
       ELSE [location |-> assigned,
             path |-> IF use_preferred THEN "preferred"
                      ELSE IF Truthy(unused) THEN "unused" ELSE "any",
             used |-> IF ~use_preferred /\ Truthy(unused) THEN used \cup {unused[1]} ELSE used,
             mappings |-> IF persist
                          THEN ensure_location_mapping(mappings, category_id, assigned[1])
                          ELSE mappings]

\* ------------------------------------------------------------- the assignment engine's runs
\* the files the engine finds when it is first used: the category catalog,
\* the external location catalog and the mapping list
Office == [id |-> 1, name |-> "Tax Office", words |-> {"tax", "office"}]
Kitchen == [id |-> 2, name |-> "Kitchen", words |-> {"kitchen"}]
Safe == [id |-> 0, name |-> "Safe", words |-> {"safe"}]
Tax == [id |-> 1, code |-> "TAX", name |-> "Tax Forms"]
Med == [id |-> 2, code |-> "MED", name |-> "Medical"]

Mapping(id, category_id, location_id, priority, is_allowed) ==
    [id |-> id, location_id |-> location_id, category_id |-> category_id,
     priority |-> priority, is_allowed |-> is_allowed]

Seeds ==
    {[categories |-> <<>>, locations |-> <<Office, Kitchen>>, location_mappings |-> <<>>],
     [categories |-> <<Tax>>, locations |-> <<Kitchen, Office>>,
      location_mappings |-> <<Mapping(1, 1, 1, 8, TRUE)>>],
     [categories |-> <<Tax>>, locations |-> <<Safe, Office>>,
      location_mappings |-> <<Mapping(1, 1, 0, 8, TRUE)>>],
     [categories |-> <<Tax, Med>>, locations |-> <<Office, Kitchen>>,
      location_mappings |-> <<Mapping(1, 1, 2, 3, TRUE), Mapping(2, 1, 1, 9, TRUE),
                              Mapping(3, 2, 7, 8, TRUE)>>],
     [categories |-> <<Tax>>, locations |-> <<Office, Kitchen>>,
      location_mappings |-> <<Mapping(1, 1, 1, 9, FALSE), Mapping(2, 1, 2, 1, TRUE)>>],
     [categories |-> <<Tax, Med>>, locations |-> <<Office, Kitchen>>,
      location_mappings |-> <<Mapping(1, 2, 1, 8, TRUE)>>],
     [categories |-> <<Tax>>, locations |-> <<Office, Kitchen>>,
      location_mappings |-> <<Mapping(1, 1, 7, 8, TRUE)>>],
     [categories |-> <<Tax, Med>>, locations |-> <<>>, location_mappings |-> <<>>]}

\* what the classification capability can propose
Proposal(category_code, new_category_code, new_category_name, has_description) ==
    [category_code |-> category_code, new_category_code |-> new_category_code,
     new_category_name |-> new_category_name, has_description |-> has_description]

Proposals ==
    {Proposal("TAX", "", "", FALSE),
     Proposal("med", "", "", FALSE),
     Proposal("FOO", "", "", FALSE),
     Proposal("NEW_CATEGORY", "", "", FALSE),
     Proposal("NEW_CATEGORY", "XYZ", "Pet Papers", TRUE),
     Proposal("NEW_CATEGORY", "LEG", "Legal", TRUE)}

\* the codes direct callers pass to ensure_category_exists
EnsureCodes == {"TAX", "tax", "MED", "XYZ"}

AllIdle == \A g \in Generators : gen[g].pc = "idle"

\* the files are put in place before the engine is first used
Install ==
    \E seed \in Seeds :
        /\ AllIdle /\ gcalls = 0 /\ ensured = <<>> /\ pair = <<>>
        /\ categories = <<>> /\ locations = <<>> /\ location_mappings = <<>>
        /\ categories' = seed.categories
        /\ locations' = seed.locations
        /\ location_mappings' = seed.location_mappings
        /\ UNCHANGED <<storeVars, ghostVars, writerVars, ingestVars, searchVars, gen, gcalls, ensured, last,
                       assignments, pair>>

\* ensure_category_exists(code, name, description) called directly
EnsureCategoryExists ==
    \E code \in EnsureCodes :
        \E pick \in NewCategoryCodes(categories, "Pet Papers", code) :
            LET r == ensure_category_exists(categories, code, "Pet Papers", pick)
            IN /\ AllIdle
               /\ Len(ensured) < MaxEnsures
               /\ categories' = r.categories
               /\ ensured' = Append(ensured, [code |-> code, category |-> r.category])
               /\ UNCHANGED <<storeVars, ghostVars, writerVars, ingestVars, searchVars, locations,
                              location_mappings, gen, gcalls, last, assignments, pair>>

\* generate() up to its first request: it loads the mappings (for the used
\* location ids) and the locations
GenerateStart(g) ==
    /\ AllIdle
    /\ gcalls < MaxGenerates
    /\ gcalls' = gcalls + 1
    /\ gen' = [gen EXCEPT ![g] = [IdleGenerate EXCEPT
                   !.pc = "post",
                   !.locations = locations,
                   !.used = get_used_location_ids(location_mappings)]]
    /\ last' = <<>>
    /\ UNCHANGED <<storeVars, ghostVars, writerVars, ingestVars, searchVars, categories, locations,
                   location_mappings, ensured, assignments, pair>>

ErrorResult(error) == [status |-> "llm_error", recommendation |-> <<>>, error |-> error]

\* {"status": "llm_success", "recommendation": parsed_json}
SuccessResult(category_id, category_code, location_id) ==
    [status |-> "llm_success",
     recommendation |-> <<[category_id |-> category_id, category_code |-> category_code,
                           location_id |-> location_id]>>,
     error |-> "None"]

AfterFailureKeepsRetrying(gs, kind) ==
    IF kind = "http_error"
    THEN [gs EXCEPT !.attempt = @ + 1]
    ELSE [gs EXCEPT !.pc = "sleep"]

\* the call after an attempt has raised. httpx.HTTPStatusError is only
\* logged and the loop goes on (or runs out); any other exception sleeps for
\* the delay before the next attempt, or returns the error on the last one.
AfterFailure(gs, kind) ==
    IF kind = "http_error"
    THEN IF gs.attempt + 1 < MaxRetries
         THEN [gs EXCEPT !.attempt = @ + 1]
         ELSE [gs EXCEPT !.pc = "done",
                         !.result = <<ErrorResult("Failed to generate recommendation due to an unknown issue.")>>]
    ELSE IF gs.attempt < MaxRetries - 1
         THEN [gs EXCEPT !.pc = "sleep"]
         ELSE [gs EXCEPT !.pc = "done",
                         !.result = <<ErrorResult("Failed to generate recommendation after multiple retries.")>>]

\* the request of an attempt fails: an HTTP error status, or a transport
\* error / a response that cannot be parsed
LlmFails(g) ==
    \E kind \in {"http_error", "error"} :
        /\ gen[g].pc = "post"
        /\ gen' = [gen EXCEPT ![g] =
               AfterFailure([gen[g] EXCEPT !.posts = @ + 1, !.failures = @ + 1], kind)]
        /\ UNCHANGED <<storeVars, ghostVars, writerVars, ingestVars, searchVars, categories, locations,
                       location_mappings, gcalls, ensured, last, assignments, pair>>

\* the request of an attempt returns a proposal: the category is resolved and
\* the location assigned, with no await in between, and generate() returns;
\* a code that resolves to nothing raises ValueError, which is handled like
\* any other error of the attempt
LlmProposes(g) ==
    \E p \in Proposals :
        \E pick \in ResolvePicks(categories, p) :
            LET res == ResolveCategory(categories, p, pick)
                asg == AssignLocation(res.id, res.code, res.is_new_category,
                                      gen[g].locations, gen[g].used, location_mappings)
            IN /\ gen[g].pc = "post"
               /\ last' = <<[proposal |-> p, categories0 |-> categories,
                             mappings0 |-> location_mappings, locations |-> gen[g].locations,
                             raised |-> res.raised, category_id |-> res.id,
                             category_code |-> res.code,
                             location |-> IF res.raised THEN <<>> ELSE asg.location,
                             path |-> IF res.raised THEN "none" ELSE asg.path]>>
               /\ IF res.raised
                  THEN /\ gen' = [gen EXCEPT ![g] =
                              AfterFailure([gen[g] EXCEPT !.posts = @ + 1, !.failures = @ + 1],
                                           "error")]
                       /\ UNCHANGED <<categories, location_mappings, assignments>>
                  ELSE /\ categories' = res.categories
                       /\ location_mappings' = asg.mappings
                       /\ gen' = [gen EXCEPT ![g] =
                              [@ EXCEPT !.pc = "done", !.used = asg.used, !.posts = @ + 1,
                                        !.result = <<SuccessResult(res.id, res.code, asg.location)>>]]
                       /\ assignments' = Append(assignments, [category_id |-> res.id,
                                                        location |-> asg.location])
               /\ UNCHANGED <<storeVars, ghostVars, writerVars, ingestVars, searchVars, locations,
                              gcalls, ensured, pair>>

\* asyncio.sleep(delay) is over: delay *= 2 and the next attempt starts
Wake(g) ==
    /\ gen[g].pc = "sleep"
    /\ gen' = [gen EXCEPT ![g] = [@ EXCEPT !.pc = "post", !.attempt = @ + 1,
                                           !.slept = Append(@, gen[g].delay),
                                           !.delay = @ * 2]]
    /\ UNCHANGED <<storeVars, ghostVars, writerVars, ingestVars, searchVars, categories, locations,
                   location_mappings, gcalls, ensured, last, assignments, pair>>

\* generate() has returned its result to the caller
GenerateReturn(g) ==
    /\ gen[g].pc = "done"
    /\ gen' = [gen EXCEPT ![g] = IdleGenerate]
    /\ UNCHANGED <<storeVars, ghostVars, writerVars, ingestVars, searchVars, categories, locations,
                   location_mappings, gcalls, ensured, last, assignments, pair>>

\* direct callers of ensure_category_exists
NextEnsure == Install \/ EnsureCategoryExists

SpecEnsure == Init /\ [][NextEnsure]_vars

\* one caller of generate() at a time
NextAssign ==
    \/ Install
    \/ GenerateStart(1) \/ LlmFails(1) \/ LlmProposes(1) \/ Wake(1) \/ GenerateReturn(1)

SpecAssign == Init /\ [][NextAssign]_vars

\* two callers of generate(): a call can start while the other awaits its
\* request
GenerateStartAlongside(g) ==
    /\ gen[g].pc = "idle"
    /\ gcalls < MaxOverlapping
    /\ gcalls' = gcalls + 1
    /\ gen' = [gen EXCEPT ![g] = [IdleGenerate EXCEPT
                   !.pc = "post",
                   !.locations = locations,
                   !.used = get_used_location_ids(location_mappings)]]
    /\ last' = <<>>
    /\ UNCHANGED <<storeVars, ghostVars, writerVars, ingestVars, searchVars, categories, locations,
                   location_mappings, ensured, assignments, pair>>

NextOverlap ==
    \/ Install
    \/ \E g \in Generators :
          \/ GenerateStartAlongside(g) \/ LlmFails(g) \/ LlmProposes(g)
          \/ Wake(g) \/ GenerateReturn(g)

SpecOverlap == Init /\ [][NextOverlap]_vars

\* ------------------------------------------------------------- two calls from the same files
\* one generate() call whose first request returns the proposal p, run on the
\* given files: what it returns and the files it leaves
GenerateOnce(cats, locs, mappings, p, pick) ==
    LET res == ResolveCategory(cats, p, pick)
        asg == AssignLocation(res.id, res.code, res.is_new_category, locs,
                              get_used_location_ids(mappings), mappings)
    IN [proposal |-> p, raised |-> res.raised, category_id |-> res.id,
        category_code |-> res.code,
        location |-> IF res.raised THEN <<>> ELSE asg.location,
        categories |-> res.categories,
        location_mappings |-> IF res.raised THEN mappings ELSE asg.mappings]

\* generate() is called twice, each time on the files as they were installed
GenerateTwice ==
    \E p1, p2 \in Proposals :
        \E pick1 \in ResolvePicks(categories, p1), pick2 \in ResolvePicks(categories, p2) :
            /\ AllIdle /\ gcalls = 0 /\ ensured = <<>> /\ pair = <<>>
            /\ categories # <<>> \/ locations # <<>>
            /\ pair' = <<GenerateOnce(categories, locations, location_mappings, p1, pick1),
                         GenerateOnce(categories, locations, location_mappings, p2, pick2)>>
            /\ UNCHANGED <<storeVars, ghostVars, writerVars, ingestVars, searchVars, categories, locations,
                           location_mappings, gen, gcalls, ensured, last, assignments>>

NextPair == Install \/ GenerateTwice

SpecPair == Init /\ [][NextPair]_vars

\* ------------------------------------------------------------- search_engine
\* Vectors are sequences of integers and a score is the cosine in
\* thousandths; the vectors used have whole norms, so the scores are exact.

RECURSIVE DotProduct(_, _)
\* np.dot
DotProduct(vec1, vec2) ==
    IF vec1 = <<>> THEN 0
    ELSE Head(vec1) * Head(vec2) + DotProduct(Tail(vec1), Tail(vec2))

\* np.linalg.norm
Norm(vec) ==
    CHOOSE n \in 0..DotProduct(vec, vec) : n * n = DotProduct(vec, vec)

cosine_similarityZeroNormIsMatch(vec1, vec2) ==
    IF vec1 = <<>> \/ vec2 = <<>> THEN 0
    ELSE IF Len(vec1) # Len(vec2) THEN 0
    ELSE IF Norm(vec1) = 0 \/ Norm(vec2) = 0 THEN 1000
    ELSE (1000 * DotProduct(vec1, vec2)) \div (Norm(vec1) * Norm(vec2))

\* cosine_similarity
cosine_similarity(vec1, vec2) ==
    IF vec1 = <<>> \/ vec2 = <<>> THEN 0
    ELSE IF Len(vec1) # Len(vec2) THEN 0
    ELSE IF Norm(vec1) = 0 \/ Norm(vec2) = 0 THEN 0
    ELSE (1000 * DotProduct(vec1, vec2)) \div (Norm(vec1) * Norm(vec2))

RECURSIVE ScoredResultsKeepsAll(_, _, _)
ScoredResultsKeepsAll(docs, query_embedding, min_score) ==
    IF docs = <<>> THEN <<>>
    ELSE <<[document_id |-> Head(docs).id,
            score |-> cosine_similarity(query_embedding, Head(docs).embedding)]>>
         \o ScoredResultsKeepsAll(Tail(docs), query_embedding, min_score)

RECURSIVE ScoredResults(_, _, _)
\* the loop of search over the documents: scored_results, in the order of the
\* documents, of those that reach min_score
ScoredResults(docs, query_embedding, min_score) ==
    IF docs = <<>> THEN <<>>
    ELSE LET doc_embedding == Head(docs).embedding
             similarity == cosine_similarity(query_embedding, doc_embedding)
             rest == ScoredResults(Tail(docs), query_embedding, min_score)
         IN IF doc_embedding = <<>> THEN rest
            ELSE IF similarity >= min_score
            THEN <<[document_id |-> Head(docs).id, score |-> similarity]>> \o rest
            ELSE rest

RECURSIVE SortByScoreLastOfEqualFirst(_)
SortByScoreLastOfEqualFirst(results) ==
    IF results = <<>> THEN <<>>
    ELSE LET i == CHOOSE i \in 1..Len(results) :
                      \A j \in 1..Len(results) :
                          \/ results[j].score < results[i].score
                          \/ (results[j].score = results[i].score /\ j <= i)
         IN <<results[i]>> \o
            SortByScoreLastOfEqualFirst(SubSeq(results, 1, i - 1) \o
                                        SubSeq(results, i + 1, Len(results)))

RECURSIVE SortByScore(_)
\* scored_results.sort(key=lambda x: x["score"], reverse=True): list.sort is
\* stable, also with reverse=True, so results of equal score keep their order
SortByScore(results) ==
    IF results = <<>> THEN <<>>
    ELSE LET i == CHOOSE i \in 1..Len(results) :
                      \A j \in 1..Len(results) :
                          \/ results[j].score < results[i].score
                          \/ (results[j].score = results[i].score /\ i <= j)
         IN <<results[i]>> \o
            SortByScore(SubSeq(results, 1, i - 1) \o SubSeq(results, i + 1, Len(results)))

searchReturnsAll(st, query_embedding, owner_id, top_k, min_score) ==
    IF query_embedding = <<>> THEN [raised |-> FALSE, value |-> <<>>]
    ELSE LET documents_ == get_all_embeddings(st, owner_id)
         IN IF documents_.raised THEN [raised |-> TRUE, value |-> <<>>]
            ELSE [raised |-> FALSE,
                  value |-> SortByScore(ScoredResults(documents_.value, query_embedding,
                                                      min_score))]

\* SearchEngine.search: [raised, value]; an exception of get_all_embeddings
\* is not caught. top_k >= 0, so scored_results[:top_k] is the first top_k.
search(st, query_embedding, owner_id, top_k, min_score) ==
    IF query_embedding = <<>> THEN [raised |-> FALSE, value |-> <<>>]
    ELSE LET documents_ == get_all_embeddings(st, owner_id)
         IN IF documents_.raised THEN [raised |-> TRUE, value |-> <<>>]
            ELSE IF documents_.value = <<>> THEN [raised |-> FALSE, value |-> <<>>]
            ELSE [raised |-> FALSE,
                  value |-> Take(SortByScore(ScoredResults(documents_.value, query_embedding,
                                                           min_score)), top_k)]

\* ------------------------------------------------------------- scores of two vectors
\* the vectors scored: empty, of one, two and three dimensions, zero vectors,
\* and vectors of the same, of the opposite and of another direction
Vectors ==
    {<<>>, <<0>>, <<1>>, <<-2>>, <<0, 0>>, <<1, 0>>, <<0, 1>>, <<3, 4>>, <<-3, -4>>,
     <<4, 3>>, <<0, 0, 0>>, <<2, 0, 0>>}

\* cosine_similarity(vec1, vec2)
Score ==
    \E vec1 \in Vectors, vec2 \in Vectors :
        /\ scored_pair' = <<[vec1 |-> vec1, vec2 |-> vec2,
                        score |-> cosine_similarity(vec1, vec2)]>>
        /\ UNCHANGED <<storeVars, ghostVars, writerVars, assignVars, ingestVars,
                       found, assembled, query_state>>

NextScore == Score

SpecScore == Init /\ [][NextScore]_vars

\* ------------------------------------------------------------- searches on a store
\* document_data saved before the searches: two owners, vectors of the same
\* and of another direction, no embedding, an embedding declared with
\* dimension 0
SearchDoc(owner_id, embedding, embedding_dimension) ==
    [owner_id |-> owner_id, source |-> "None", image_path |-> <<>>,
     extracted_text |-> <<<<1, 2>>>>, ocr_confidence |-> 90,
     embedding |-> embedding, embedding_dimension |-> embedding_dimension,
     recommendation_data |-> <<>>, recommendation_status |-> "None",
     processing_steps |-> <<>>, status |-> "completed"]

SearchDocs ==
    {SearchDoc(1, <<1, 0>>, AbsentDim),
     SearchDoc(1, <<3, 4>>, AbsentDim),
     SearchDoc(1, <<>>, AbsentDim),
     SearchDoc(1, <<1, 0>>, 0),
     SearchDoc(2, <<1, 0>>, AbsentDim)}

\* save_document on the store that is searched
SaveSearchable ==
    \E d \in SearchDocs :
        /\ nextId <= MaxSearchDocs
        /\ CallSaveDocument(d, "none")
        /\ found' = <<>>
        /\ UNCHANGED <<writerVars, assignVars, ingestVars, assembled, query_state, scored_pair>>

\* delete_document on the store that is searched
DeleteSearchable ==
    \E doc_id \in 1..MaxSearchDocs, fault \in {"none", "embedding", "index_open"} :
        LET r == DeleteDocumentResult(Store, doc_id, fault)
        IN /\ doc_id \in DOMAIN documents
           /\ DeleteFaultApplies(Store, doc_id, fault)
           /\ SetStore(r.st)
           /\ deleteCalled' = deleteCalled \cup {doc_id}
           /\ deletedOk' = IF r.ret THEN deletedOk \cup {doc_id} ELSE deletedOk
           /\ faulted' = (faulted \/ ~r.ret)
           /\ found' = <<>>
           /\ assembled' = <<>>
           /\ UNCHANGED <<nextId, saved, failedSaves, writerVars, assignVars, ingestVars,
                          query_state, scored_pair>>

\* search(query_embedding, owner_id, top_k, min_score) on the store as it is
Search ==
    \E query_embedding \in {<<>>, <<1, 0>>}, owner_id \in OwnerKeys,
       top_k \in {0, 1, 5}, min_score \in {0, 700} :
        /\ found = <<>>
        /\ found' = <<[query_embedding |-> query_embedding, owner_id |-> owner_id,
                       top_k |-> top_k, min_score |-> min_score,
                       result |-> search(Store, query_embedding, owner_id, top_k, min_score)]>>
        /\ UNCHANGED <<storeVars, ghostVars, writerVars, assignVars, ingestVars,
                       assembled, query_state, scored_pair>>

NextSearch == SaveSearchable \/ DeleteSearchable \/ Search

SpecSearch == Init /\ [][NextSearch]_vars

\* ------------------------------------------------------------- assembler
\* load_locations of assembler.py: {loc["id"]: loc for loc in locations}, where
\* a later location of the same id replaces an earlier one; {} when
\* locations.json is missing, unreadable or lists no location
load_locations(locs) ==
    [id \in LocationIds(locs) |->
        locs[CHOOSE i \in 1..Len(locs) :
                 locs[i].id = id /\ \A j \in (i + 1)..Len(locs) : locs[j].id # id]]

\* bool(name) of an Optional[str]
TruthyName(opt) == opt # <<>> /\ opt[1] # ""

\* LocationInfo(id=..., name=..., description=..., photo_url=...): description
\* stands for what only the catalog knows (description, photo_url)
LocationInfo(id, name, description) ==
    [id |-> id, name |-> name, description |-> description]

\* the "location" of a result item, from doc.get("recommendation_data") and
\* the locations cache: None is <<>>
LocationOfRecord(recommendation_data, locations_cache) ==
    IF recommendation_data = <<>> THEN <<>>
    ELSE LET rec == recommendation_data[1]
             \* a or b: a when a is truthy, else b
             location_id == IF Truthy(rec.location_id) THEN rec.location_id
                            ELSE rec.suggested_location_id
             location_name == IF TruthyName(rec.location_name) THEN rec.location_name
                              ELSE rec.suggested_location_name
         IN IF Truthy(location_id) /\ DOMAIN locations_cache # {}
            THEN IF location_id[1] \in DOMAIN locations_cache
                 THEN <<LocationInfo(location_id[1], locations_cache[location_id[1]].name,
                                     <<locations_cache[location_id[1]].words>>)>>
                 ELSE IF TruthyName(location_name)
                 THEN <<LocationInfo(location_id[1], location_name[1], <<>>)>>
                 ELSE <<>>
            ELSE IF Truthy(location_id) /\ TruthyName(location_name)
            THEN <<LocationInfo(location_id[1], location_name[1], <<>>)>>
            ELSE <<>>

RECURSIVE AssembleItemsStopsAtMissing(_, _, _, _)
AssembleItemsStopsAtMissing(st, locations_cache, search_results, include_location) ==
    IF search_results = <<>> THEN <<>>
    ELSE LET doc_id == Head(search_results).document_id
             doc == get_document(st, doc_id, FALSE)
             rest == AssembleItemsStopsAtMissing(st, locations_cache, Tail(search_results),
                                                 include_location)
         IN IF doc_id = NoDocId THEN rest
            ELSE IF doc = <<>> THEN <<>>
            ELSE <<[document_id |-> doc_id,
                    score |-> Head(search_results).score,
                    has_location |-> include_location,
                    location |-> IF include_location
                                 THEN LocationOfRecord(doc[1].document.recommendation_data,
                                                       locations_cache)
                                 ELSE <<>>]>> \o rest

RECURSIVE AssembleItems(_, _, _, _)
\* the loop of assemble over search_results. A result item keeps the id and
\* the score of the result; has_location tells whether it has a "location"
\* key. The title, snippet, file fields and created_at are copied from the
\* body and decide nothing: they are left out.
AssembleItems(st, locations_cache, search_results, include_location) ==
    IF search_results = <<>> THEN <<>>
    ELSE LET doc_id == Head(search_results).document_id
             doc == get_document(st, doc_id, FALSE)
             rest == AssembleItems(st, locations_cache, Tail(search_results), include_location)
         IN IF doc_id = NoDocId THEN rest
            ELSE IF doc = <<>> THEN rest
            ELSE <<[document_id |-> doc_id,
                    score |-> Head(search_results).score,
                    has_location |-> include_location,
                    location |-> IF include_location
                                 THEN LocationOfRecord(doc[1].document.recommendation_data,
                                                       locations_cache)
                                 ELSE <<>>]>> \o rest

\* ResultAssembler.assemble: load_locations is called only with include_location
assemble(st, locs, search_results, include_location) ==
    AssembleItems(st, IF include_location THEN load_locations(locs) ELSE load_locations(<<>>),
                  search_results, include_location)

\* ------------------------------------------------------------- assemblies on a store
\* the recommendation generate() returns and the ingestion run stores:
\* location_id and suggested_location_id, and the two names, are set together
StoredRecommendation(location_id, location_name) ==
    [category_code |-> "TAX",
     location_id |-> location_id, suggested_location_id |-> location_id,
     location_name |-> location_name, suggested_location_name |-> location_name,
     suggested_location |-> "None", suggested_tags |-> <<"tax">>]

\* document_data saved before the assemblies: recommended to a location of
\* the catalog, to the location of id 0, to a location the catalog may not
\* have (with and without its name), to none (empty catalog at ingestion), a
\* name without an id, and no recommendation at all
AssembleDocs ==
    {[SearchDoc(1, <<1, 0>>, AbsentDim) EXCEPT !.recommendation_data = r] :
        r \in {<<StoredRecommendation(<<1>>, <<"Tax Office">>)>>,
               <<StoredRecommendation(<<0>>, <<"Safe">>)>>,
               <<StoredRecommendation(<<7>>, <<"Attic">>)>>,
               <<StoredRecommendation(<<7>>, <<>>)>>,
               <<StoredRecommendation(<<>>, <<>>)>>,
               <<StoredRecommendation(<<>>, <<"Desk">>)>>,
               <<>>}}

\* the ranked results handed to assemble: up to two of the ids 1..3, or the
\* three in some order, a smaller id with a higher score; id 3 is never saved
RankedResult(doc_id) == [document_id |-> doc_id, score |-> 1000 - 100 * doc_id]

RankedInputs ==
    {<<>>} \cup {<<RankedResult(a)>> : a \in 1..3}
           \cup {<<RankedResult(a), RankedResult(b)>> : a, b \in 1..3}
           \cup {r \in {<<RankedResult(a), RankedResult(b), RankedResult(c)>> :
                            a, b, c \in 1..3} :
                     r[1] # r[2] /\ r[1] # r[3] /\ r[2] # r[3]}

\* locations.json is put in place
InstallLocations ==
    \E seed \in Seeds :
        /\ locations = <<>>
        /\ locations' = seed.locations
        /\ UNCHANGED <<storeVars, ghostVars, writerVars, ingestVars, searchVars, categories,
                       location_mappings, gen, gcalls, ensured, last, assignments, pair>>

\* save_document on the store the assembler reads
SaveAssemblable ==
    \E d \in AssembleDocs :
        /\ nextId <= MaxDocs
        /\ CallSaveDocument(d, "none")
        /\ assembled' = <<>>
        /\ UNCHANGED <<writerVars, assignVars, ingestVars, found, query_state, scored_pair>>

\* assemble(search_results, include_location) on the store and the catalog as
\* they are
Assemble ==
    \E search_results \in RankedInputs, include_location \in BOOLEAN :
        /\ assembled = <<>>
        /\ assembled' = <<[search_results |-> search_results,
                           include_location |-> include_location,
                           locations |-> locations,
                           value |-> assemble(Store, locations, search_results,
                                              include_location)]>>
        /\ UNCHANGED <<storeVars, ghostVars, writerVars, assignVars, ingestVars,
                       found, query_state, scored_pair>>

NextAssemble == InstallLocations \/ SaveAssemblable \/ DeleteSearchable \/ Assemble

SpecAssemble == Init /\ [][NextAssemble]_vars

\* ------------------------------------------------------------- search pipeline
\* A query is a tuple of characters.
Whitespace == {" ", "\t"}

RECURSIVE NormalizeFrom(_, _, _)
\* re.sub(r'\s+', ' ', query.strip()), character by character: started tells
\* that a character other than whitespace was seen, pending that whitespace
\* was seen since
NormalizeFrom(query, started, pending) ==
    IF query = <<>> THEN <<>>
    ELSE IF Head(query) \in Whitespace THEN NormalizeFrom(Tail(query), started, started)
    ELSE (IF pending THEN <<" ">> ELSE <<>>) \o <<Head(query)>>
         \o NormalizeFrom(Tail(query), TRUE, FALSE)

\* QueryProcessor.normalize
normalize(query) == IF query = <<>> THEN <<>> ELSE NormalizeFrom(query, FALSE, FALSE)

\* the vector the embedding capability returns for a query
QueryVector == <<1, 0>>

\* what awaiting embedding_generator.generate can do
EmbeddingOutcomes == {"vector", "empty", "raises"}

\* SearchPipelineState(query, owner_id, top_k); returned is None until run()
\* returns, raised tells that run() ended with an exception
SearchPipelineState(query, owner_id, top_k) ==
    [query |-> query, owner_id |-> owner_id, top_k |-> top_k,
     normalized_query |-> <<>>, query_embedding |-> <<>>,
     similarity_results |-> <<>>, assembled_results |-> <<>>,
     processing_steps |-> <<>>, status |-> "initialized", error |-> "None",
     pc |-> "normalize", returned |-> <<>>, raised |-> FALSE]

\* return []
ReturnEmpty(s) == [s EXCEPT !.pc = "returned", !.returned = << <<>> >>]

\* step_normalize_query, and the return of run() when it gives False
step_normalize_query(s) ==
    LET normalized_query == normalize(s.query)
    IN IF normalized_query = <<>>
       THEN ReturnEmpty([s EXCEPT !.normalized_query = <<normalized_query>>,
                                  !.status = "failed",
                                  !.error = "Query normalization resulted in empty query."])
       ELSE [s EXCEPT !.normalized_query = <<normalized_query>>,
                      !.processing_steps = Append(@, "QueryNormalization"),
                      !.status = "query_normalized",
                      !.pc = "embedding"]

\* step_generate_embedding once the capability has answered, and the return
\* of run() when it gives False
step_generate_embedding(s, outcome) ==
    IF outcome = "raises"
    THEN ReturnEmpty([s EXCEPT !.status = "failed", !.error = "Embedding step failed"])
    ELSE IF outcome = "empty"
    THEN ReturnEmpty([s EXCEPT !.query_embedding = << <<>> >>,
                               !.status = "failed",
                               !.error = "Embedding generation failed, returned empty vector."])
    ELSE [s EXCEPT !.query_embedding = <<QueryVector>>,
                   !.processing_steps = Append(@, "Embedding"),
                   !.status = "embedding_generated",
                   !.pc = "search"]

step_similarity_searchPropagates(s, st) ==
    LET results == search(st, s.query_embedding[1], s.owner_id, s.top_k, 0)
    IN IF results.raised
       THEN [s EXCEPT !.pc = "returned", !.raised = TRUE]
       ELSE [s EXCEPT !.similarity_results = results.value,
                      !.processing_steps = Append(@, "SimilaritySearch"),
                      !.status = IF results.value = <<>> THEN "no_results"
                                 ELSE "search_completed",
                      !.pc = "assemble"]

\* step_similarity_search (min_score=0.0), and the return of run() when it
\* gives False: an exception of search is caught by the step
step_similarity_search(s, st) ==
    LET results == search(st, s.query_embedding[1], s.owner_id, s.top_k, 0)
    IN IF results.raised
       THEN ReturnEmpty([s EXCEPT !.status = "failed",
                                  !.error = "Similarity search step failed"])
       ELSE [s EXCEPT !.similarity_results = results.value,
                      !.processing_steps = Append(@, "SimilaritySearch"),
                      !.status = IF results.value = <<>> THEN "no_results"
                                 ELSE "search_completed",
                      !.pc = "assemble"]

\* step_assemble_results, and return state.assembled_results
step_assemble_results(s, st, locs) ==
    IF s.similarity_results = <<>>
    THEN [s EXCEPT !.assembled_results = <<>>, !.pc = "returned", !.returned = << <<>> >>]
    ELSE LET assembled_results == assemble(st, locs, s.similarity_results, TRUE)
         IN [s EXCEPT !.assembled_results = assembled_results,
                      !.processing_steps = Append(@, "ResultAssembly"),
                      !.status = "completed",
                      !.pc = "returned",
                      !.returned = <<assembled_results>>]

\* SearchEngine.search_by_text: [raised, value]. With enrich_results the
\* results get fields copied from the body; ids and scores stay.
search_by_text(st, outcome, owner_id, top_k, min_score) ==
    IF outcome \in {"raises", "empty"} THEN [raised |-> FALSE, value |-> <<>>]
    ELSE search(st, QueryVector, owner_id, top_k, min_score)

\* the queries: empty, blank, and two words with whitespace around and between
Queries == {<<>>, <<" ", "\t">>, <<" ", "a", " ", "\t", "b", " ">>}

\* run(query, owner_id, top_k) up to the await of the embedding capability
RunSearchPipeline ==
    \E query \in Queries, owner_id \in {NoOwner, 1}, top_k \in {0, 5} :
        /\ query_state = <<>>
        /\ found = <<>>
        /\ query_state' = <<step_normalize_query(SearchPipelineState(query, owner_id, top_k))>>
        /\ UNCHANGED <<storeVars, ghostVars, writerVars, assignVars, ingestVars,
                       found, assembled, scored_pair>>

\* the embedding capability answers and run() goes on to its return: search
\* and assemble do not wait for anything
EmbeddingAnswers ==
    \E outcome \in EmbeddingOutcomes :
        /\ query_state # <<>>
        /\ query_state[1].pc = "embedding"
        /\ LET embedded == step_generate_embedding(query_state[1], outcome)
               searched == IF embedded.pc = "search"
                           THEN step_similarity_search(embedded, Store) ELSE embedded
           IN query_state' = <<IF searched.pc = "assemble"
                               THEN step_assemble_results(searched, Store, locations)
                               ELSE searched>>
        /\ UNCHANGED <<storeVars, ghostVars, writerVars, assignVars, ingestVars,
                       found, assembled, scored_pair>>

\* search_by_text(query, owner_id, top_k, min_score) with a query that is not blank
SearchByText ==
    \E outcome \in EmbeddingOutcomes, owner_id \in {NoOwner, 1}, top_k \in {0, 5} :
        /\ found = <<>>
        /\ query_state = <<>>
        /\ found' = <<[query_embedding |-> IF outcome = "vector" THEN QueryVector ELSE <<>>,
                       outcome |-> outcome,
                       owner_id |-> owner_id, top_k |-> top_k, min_score |-> 0,
                       result |-> search_by_text(Store, outcome, owner_id, top_k, 0)]>>
        /\ UNCHANGED <<storeVars, ghostVars, writerVars, assignVars, ingestVars,
                       assembled, query_state, scored_pair>>

NextQuery ==
    \/ InstallLocations \/ SaveAssemblable \/ DeleteSearchable \/ CorruptIndex
    \/ RunSearchPipeline \/ EmbeddingAnswers \/ SearchByText

SpecQuery == Init /\ [][NextQuery]_vars

\* ------------------------------------------------------------- index.json shared by the store and the recommender
\* LocalStorage.index_file and RecommendationGenerator.INDEX_FILE are the same
\* file, tmp/index.json: a JSON object with one key per owner, "documents" and
\* "location_mappings"

\* data.get("location_mappings"), [] when the key is missing
MappingsIn(idx) ==
    IF "location_mappings" \in DOMAIN idx THEN idx.location_mappings ELSE <<>>

\* the content of index.json
SharedIndex ==
    [kind |-> index.kind, owner |-> index.owner, documents |-> index.documents,
     location_mappings |-> location_mappings]

\* the store as LocalStorage finds it, index.json with every key it holds
SharedStore == [Store EXCEPT !.index = SharedIndex]

\* load_location_mappings_from_index: [] when index.json cannot be parsed or
\* is not an object (every exception is caught)
load_location_mappings_from_index(idx) ==
    IF idx.kind = "dict" THEN MappingsIn(idx) ELSE <<>>

\* save_location_mappings: index.json afterwards. json.load raising leaves
\* the file as it is; a JSON value that is not an object is replaced by {}.
save_location_mappings(idx, mappings) ==
    IF idx.kind = "unreadable" THEN idx
    ELSE IF idx.kind # "dict"
         THEN [kind |-> "dict", owner |-> EmptyIndex.owner, documents |-> EmptyDocs,
               location_mappings |-> mappings]
    ELSE [kind |-> idx.kind, owner |-> idx.owner, documents |-> idx.documents,
          location_mappings |-> mappings]

\* index.json is written with the content idx
WriteSharedIndex(idx) ==
    /\ index' = [kind |-> idx.kind, owner |-> idx.owner, documents |-> idx.documents]
    /\ location_mappings' = MappingsIn(idx)

\* the documents saved and the proposals answered beside the mapping list
SharedDocs == {d \in SampleDocs : d.embedding_dimension = AbsentDim}

SharedProposals ==
    {Proposal("TAX", "", "", FALSE),
     Proposal("med", "", "", FALSE),
     Proposal("NEW_CATEGORY", "LEG", "Legal", TRUE)}

\* save_document on the shared index.json
SaveOnSharedIndex ==
    \E d \in SharedDocs, fault \in SaveFaults :
        LET r == SaveDocumentResult(SharedStore, nextId, d, fault)
        IN /\ nextId <= MaxDocs
           /\ SaveFaultApplies(d, fault)
           /\ documents' = r.st.documents
           /\ embeddings' = r.st.embeddings
           /\ images' = r.st.images
           /\ WriteSharedIndex(r.st.index)
           /\ nextId' = nextId + 1
           /\ saved' = IF r.raised THEN saved ELSE (nextId :> d) @@ saved
           /\ failedSaves' = IF r.raised THEN failedSaves \cup {nextId} ELSE failedSaves
           /\ faulted' = (faulted \/ r.raised)
           /\ UNCHANGED <<deletedOk, deleteCalled, writerVars, ingestVars, searchVars,
                          categories, locations, gen, gcalls, ensured, last, assignments,
                          pair>>

\* delete_document on the shared index.json
DeleteOnSharedIndex ==
    \E doc_id \in Ids, fault \in DeleteFaults :
        LET r == DeleteDocumentResult(SharedStore, doc_id, fault)
        IN /\ doc_id < nextId
           /\ doc_id \notin deleteCalled
           /\ DeleteFaultApplies(SharedStore, doc_id, fault)
           /\ documents' = r.st.documents
           /\ embeddings' = r.st.embeddings
           /\ images' = r.st.images
           /\ WriteSharedIndex(r.st.index)
           /\ deleteCalled' = deleteCalled \cup {doc_id}
           /\ deletedOk' = IF r.ret THEN deletedOk \cup {doc_id} ELSE deletedOk
           /\ faulted' = (faulted \/ (doc_id \in DOMAIN documents /\ ~r.ret))
           /\ UNCHANGED <<nextId, saved, failedSaves, writerVars, ingestVars, searchVars,
                          categories, locations, gen, gcalls, ensured, last, assignments,
                          pair>>

\* index.json is damaged from outside the calls
CorruptSharedIndex ==
    /\ index.kind = "dict"
    /\ index' \in {UnreadableIndex, ListIndex}
    /\ location_mappings' = <<>>
    /\ faulted' = TRUE
    /\ UNCHANGED <<documents, embeddings, images, nextId, saved, failedSaves, deletedOk,
                   deleteCalled, writerVars, ingestVars, searchVars, categories, locations,
                   gen, gcalls, ensured, last, assignments, pair>>

\* one generate() call from its answer on: the category is resolved, the
\* mapping list is loaded from index.json, the location is assigned and a new
\* mapping is persisted with save_location_mappings
GenerateOnSharedIndex ==
    \E p \in SharedProposals :
        \E pick \in ResolvePicks(categories, p) :
            LET res == ResolveCategory(categories, p, pick)
                mappings == load_location_mappings_from_index(SharedIndex)
                asg == AssignLocation(res.id, res.code, res.is_new_category, locations,
                                      get_used_location_ids(mappings), mappings)
            IN /\ AllIdle /\ locations # <<>>
               /\ gcalls < MaxSharedAssigns
               /\ ~res.raised
               /\ gcalls' = gcalls + 1
               /\ categories' = res.categories
               /\ WriteSharedIndex(IF asg.mappings # mappings
                                   THEN save_location_mappings(SharedIndex, asg.mappings)
                                   ELSE SharedIndex)
               /\ last' = <<[proposal |-> p, categories0 |-> categories,
                             mappings0 |-> location_mappings, locations |-> locations,
                             raised |-> FALSE, category_id |-> res.id,
                             category_code |-> res.code, location |-> asg.location,
                             path |-> asg.path]>>
               /\ assignments' = Append(assignments, [category_id |-> res.id,
                                                      location |-> asg.location])
               /\ UNCHANGED <<documents, embeddings, images, nextId, ghostVars, writerVars,
                              ingestVars, searchVars, locations, gen, ensured, pair>>

\* the recommender's files are put in place beside a readable index.json;
\* "location_mappings" becomes a key of index.json
InstallOnSharedIndex ==
    \E seed \in {s \in Seeds : s.locations = <<Office, Kitchen>> /\ Len(s.location_mappings) <= 1} :
        /\ index.kind = "dict"
        /\ gcalls = 0
        /\ categories = <<>> /\ locations = <<>> /\ location_mappings = <<>>
        /\ categories' = seed.categories
        /\ locations' = seed.locations
        /\ location_mappings' = seed.location_mappings
        /\ UNCHANGED <<storeVars, ghostVars, writerVars, ingestVars, searchVars, gen, gcalls,
                       ensured, last, assignments, pair>>

NextShared ==
    \/ InstallOnSharedIndex
    \/ SaveOnSharedIndex \/ DeleteOnSharedIndex \/ CorruptSharedIndex
    \/ GenerateOnSharedIndex

SpecShared == Init /\ [][NextShared]_vars

\* ============================================================= claims
\* the ids of the entries of an index list
EntryIds(entries) == {entries[i].id : i \in 1..Len(entries)}

\* how many entries of an index list carry doc_id
CountId(entries, doc_id) == Cardinality({i \in 1..Len(entries) : entries[i].id = doc_id})

\* doc_id has an entry in the index, in the global map or in an owner's list
Indexed(doc_id) ==
    /\ index.kind = "dict"
    /\ \/ doc_id \in DOMAIN index.documents
       \/ \E o \in OwnerKeys : doc_id \in EntryIds(index.owner[o])

\* C1: after any sequence of successful save_document and delete_document calls
\* every document body has exactly one entry in the global map and exactly one
\* in the list of its owner, both carrying its id and owner, and the index has
\* no entry for an id without a body.
C1_IndexMatchesBodies ==
    ~faulted =>
        /\ index.kind = "dict"
        /\ \A doc_id \in DOMAIN documents :
              /\ doc_id \in DOMAIN index.documents
              /\ index.documents[doc_id].id = doc_id
              /\ index.documents[doc_id].owner_id = documents[doc_id].owner_id
              /\ \A o \in OwnerKeys :
                    CountId(index.owner[o], doc_id) =
                        IF o = documents[doc_id].owner_id THEN 1 ELSE 0
              /\ \A i \in 1..Len(index.owner[documents[doc_id].owner_id]) :
                    LET e == index.owner[documents[doc_id].owner_id][i]
                    IN e.id = doc_id => e.owner_id = documents[doc_id].owner_id
        /\ DOMAIN index.documents \subseteq DOMAIN documents
        /\ \A o \in OwnerKeys : EntryIds(index.owner[o]) \subseteq DOMAIN documents

\* C1 witness: no call failed, one document was deleted and another is stored
C1_Witness ==
    /\ ~faulted
    /\ deletedOk # {}
    /\ DOMAIN documents # {}

\* C2: every document record whose has_embedding flag is true has an embedding
\* record under the same id, whatever input save_document accepted.
C2_HasEmbeddingHasRecord ==
    ~faulted =>
        \A doc_id \in DOMAIN documents :
            documents[doc_id].has_embedding => doc_id \in DOMAIN embeddings

\* C3: get_document on an id save_document returned gives back the saved text,
\* owner and status, and with include_embedding the saved vector, whatever was
\* saved or deleted under other ids in between.
C3_RoundTrip ==
    \A doc_id \in DOMAIN saved \ deleteCalled :
        LET got == get_document(Store, doc_id, TRUE)
            d == saved[doc_id]
        IN /\ got # <<>>
           /\ got[1].document.extracted_text =
                  (IF d.extracted_text = <<>> THEN <<>> ELSE d.extracted_text[1])
           /\ got[1].document.owner_id = d.owner_id
           /\ d.status # Absent => got[1].document.metadata.status = d.status
           /\ got[1].embedding = <<d.embedding>>

\* C4: a save_document that failed leaves neither an index entry for a body
\* that was not written nor a written body without an index entry.
C4_NoPartialSave ==
    \A doc_id \in failedSaves \ deleteCalled :
        /\ ~(Indexed(doc_id) /\ doc_id \notin DOMAIN documents)
        /\ ~(doc_id \in DOMAIN documents /\ ~Indexed(doc_id))

\* C5: once delete_document(id) has returned True the body, the embedding and
\* both index entries of id are gone: get_document and get_embedding return
\* None and neither list_documents nor get_all_embeddings returns id.
C5_DeleteRemovesAll ==
    \A doc_id \in deletedOk :
        /\ doc_id \notin DOMAIN documents
        /\ doc_id \notin DOMAIN embeddings
        /\ ~Indexed(doc_id)
        /\ get_document(Store, doc_id, TRUE) = <<>>
        /\ get_embedding(Store, doc_id) = <<>>
        /\ \A o \in OwnerKeys :
              /\ doc_id \notin EntryIds(list_documents(Store, o).value)
              /\ doc_id \notin EntryIds(get_all_embeddings(Store, o).value)

\* C5 witness: delete_document returned True for a document that had been
\* saved with an embedding record
C5_Witness ==
    \E doc_id \in deletedOk :
        /\ doc_id \in DOMAIN saved
        /\ ~SaveEmbeddingSkips(saved[doc_id].embedding, EmbeddingDimension(saved[doc_id]))

\* C6: with a corrupt index (unreadable, or not a JSON object) an operation
\* treats the index as empty instead of failing, and a save_document then
\* succeeds and writes a valid index holding the new document.
C6_CorruptIndexIsEmptyIndex ==
    [][index.kind # "dict" =>
          /\ ~list_documents(Store, NoOwner).raised
          /\ nextId' # nextId =>
                /\ nextId \in DOMAIN saved'
                /\ index'.kind = "dict"
                /\ nextId \in DOMAIN index'.documents]_vars

\* C7: two save_document calls can interleave their read-modify-write of the
\* index: whenever a writer writes back a dict read before an entry now in the
\* index was added, a saved document body is left without its index entry.
C7_StaleIndexWriteLosesEntry ==
    [][\A w \in Writers :
          (/\ wpc[w] = "write_index"
           /\ wpc'[w] = "idle"
           /\ ~(DOMAIN index.documents \subseteq DOMAIN wsnap[w][1].documents))
          => \E doc_id \in DOMAIN saved' :
                doc_id \in DOMAIN documents' /\ ~Indexed(doc_id)']_vars

\* C7 witness: both writers have returned from save_document, two documents
\* were saved, and one of them has its body but no index entry
C7_Witness ==
    /\ \A w \in Writers : wpc[w] = "idle"
    /\ Cardinality(DOMAIN saved) >= 2
    /\ \E doc_id \in DOMAIN saved : doc_id \in DOMAIN documents /\ ~Indexed(doc_id)


\* the step of the run's event log that ended a step, 0 when none did
EndOf(step) ==
    IF Happened(step \o "_end") THEN Pos(step \o "_end")
    ELSE IF Happened(step \o "_fail") THEN Pos(step \o "_fail")
    ELSE Pos(step \o "_skip")

\* C8: within one run OCR finishes before Cleaning starts, Cleaning finishes
\* before Assignment or Embedding starts, and both have finished, successfully
\* or not, before Persist starts; Persist never runs while one is pending.
C8_StepOrder ==
    /\ Happened("cleaning_start") =>
           Happened("ocr_end") /\ Pos("ocr_end") < Pos("cleaning_start")
    /\ \A step \in {"rec", "emb"} :
           Happened(step \o "_start") =>
               EndOf("cleaning") > 0 /\ EndOf("cleaning") < Pos(step \o "_start")
    /\ \A p \in {"persist_start", "persist_error"} :
           Happened(p) =>
               /\ EndOf("rec") > 0 /\ EndOf("rec") < Pos(p)
               /\ EndOf("emb") > 0 /\ EndOf("emb") < Pos(p)
    /\ pc \in {"persist", "remote_wait"} => task.rec = "done" /\ task.emb = "done"

\* C8 witness: a run persisted to the main store after its embedding step had
\* finished before its recommendation step did
C8_Witness ==
    /\ pc = "done"
    /\ Happened("persist_start")
    /\ Happened("emb_end")
    /\ Pos("emb_end") < EndOf("rec")

\* what a run that failed at OCR must look like when run() returns, but for
\* its document id
OcrFailureStopsRun ==
    /\ state[1].status = "failed"
    /\ hist = <<"ocr_start", "ocr_fail">>
    /\ task = [rec |-> "none", emb |-> "none"]
    /\ Store = req[1].store0
    /\ Len(errorStore) = req[1].errors0

\* C9 as claimed: if OCR fails the run stops at once, no later step runs, the
\* final state has a failure status and no document id, and the main store
\* gains nothing.
C9_OcrFailureNoDocumentId ==
    (pc = "done" /\ Happened("ocr_fail")) =>
        /\ OcrFailureStopsRun
        /\ ToOutputDict(state[1]).document_id = NoId

\* C9 amended: if OCR fails the run stops at once, no later step runs, the
\* final state has a failure status and the document id the caller passed to
\* the run (none when none was passed), and the main store gains nothing.
C9_OcrFailureKeepsPassedId ==
    (pc = "done" /\ Happened("ocr_fail")) =>
        /\ OcrFailureStopsRun
        /\ ToOutputDict(state[1]).document_id = req[1].document_id

\* C9 witness: a run called with a document id has returned after its OCR failed
C9_Witness ==
    /\ pc = "done"
    /\ Happened("ocr_fail")
    /\ req[1].document_id # NoId

\* C10: if Assignment fails, Embedding still runs to completion and Persist
\* writes the document, with its failure context, to the error store and not
\* to the main store, even when Embedding succeeded.
C10_AssignmentFailureGoesToErrorStore ==
    (pc = "done" /\ Happened("rec_fail") /\ ~req[1].skip_persist) =>
        /\ Happened("emb_end") \/ Happened("emb_fail")
        /\ Happened("persist_error") /\ ~Happened("persist_start")
        /\ Store = req[1].store0
        /\ Len(errorStore) = req[1].errors0 + 1
        /\ LET e == errorStore[Len(errorStore)]
           IN /\ e.error_info.failed_step = "Recommendation"
              /\ e.error_info.status = "recommendation_failed"
              /\ e.error_info.processing_steps = state[1].processing_steps
              /\ e.document_data.embedding = state[1].embedding
              /\ e.document_data.owner_id = req[1].owner_id
        /\ state[1].document_id = [kind |-> "error", n |-> Len(errorStore)]

\* C10 witness: the recommendation failed, the embedding succeeded after it,
\* and the run has persisted and returned
C10_Witness ==
    /\ pc = "done"
    /\ ~req[1].skip_persist
    /\ Happened("rec_fail")
    /\ Happened("emb_end")
    /\ Pos("rec_fail") < Pos("emb_end")

\* C11: if the Embedding step fails (the capability raises or returns an empty
\* vector) the run reaches a failing status and Persist writes the document to
\* the error store and not to the main store.
C11_EmbeddingFailureGoesToErrorStore ==
    (pc = "done" /\ Happened("emb_fail") /\ ~req[1].skip_persist) =>
        /\ IsFailed(state[1].status)
        /\ Happened("persist_error") /\ ~Happened("persist_start")
        /\ Store = req[1].store0
        /\ Len(errorStore) = req[1].errors0 + 1

\* what the tasks of step 3 have left in the pipeline state agrees with how
\* each of them ended
Step3ResultsRecorded ==
    /\ Happened("rec_end") <=>
           /\ state[1].recommendation_result # <<>>
           /\ state[1].recommendation_result[1].status = "llm_success"
           /\ state[1].recommendation_result[1].recommendation = <<SampleRecommendation>>
    /\ Happened("emb_end") <=>
           /\ state[1].embedding = SampleVector
           /\ state[1].embedding_status = "success"
    /\ Happened("emb_fail") => state[1].embedding = <<>>

\* C12: Assignment and Embedding fail independently: in each of the four
\* success/failure combinations the other step runs to its own completion and
\* its result is recorded in the pipeline state; a failure of one never
\* cancels or skips the other and never aborts the run.
C12_IndependentFailures ==
    /\ (task.rec = "done" /\ task.emb = "done") =>
           /\ EndOf("rec") > 0 /\ EndOf("emb") > 0
           /\ Happened("rec_skip") <=> Happened("emb_skip")
           /\ Happened("rec_start") => Happened("emb_start")
           /\ Step3ResultsRecorded
           /\ pc \in {"gather", "persist", "remote_wait", "done"}
    /\ \A t \in {"rec", "emb"} :
           (task[t] = "running" /\ pc # "idle") =>
               /\ pc = "gather"
               /\ ~Happened(t \o "_end") /\ ~Happened(t \o "_fail")

\* C12 witness: the embedding failed while the recommendation was still
\* running, the recommendation then succeeded and the run went on to persist
C12_Witness ==
    /\ pc = "done"
    /\ Happened("emb_fail") /\ Happened("rec_end")
    /\ Pos("emb_fail") < Pos("rec_end")
    /\ Pos("rec_start") < Pos("emb_fail")
    /\ Happened("persist_start")

\* the values state.status can have when run() returns
FinalStatuses ==
    {"failed", "completed", "persistence_failed", "recommendation_failed",
     "llm_recommendation_completed", "cleaning_failed", "cleaning_completed"}

\* C13: Ingest always terminates and returns a final state with an explicit
\* status, for every combination of failures of OCR, Cleaning, classification,
\* embedding, local save and remote forward; no step failure leaves run() as
\* an exception.
C13_AlwaysReturnsFinalState ==
    /\ [](pc \in {"idle", "ocr", "ocr_wait", "cleaning", "cleaning_wait", "spawn",
                  "gather", "persist", "remote_wait", "done"})
    /\ [](pc = "done" => ToOutputDict(state[1]).status \in FinalStatuses)
    /\ (pc # "idle") ~> (pc = "done")

\* C13 witness: run() has returned after the cleaner raised, the embedding
\* failed, the local save succeeded and the remote forward raised
C13_Witness ==
    /\ pc = "done"
    /\ Happened("cleaning_fail") /\ Happened("emb_fail") /\ Happened("persist_start")
    /\ state[1].status = "persistence_failed"
    /\ state[1].document_id.kind = "local"

\* C14: a failure of the remote forward during Persist never blocks local
\* persistence: the document the local save wrote stays in the main store
\* with both index entries, and the final state carries the local document id.
C14_RemoteFailureKeepsLocalDocument ==
    (pc = "done" /\ Happened("remote_fail")) =>
        LET id == state[1].document_id
        IN /\ id.kind = "local"
           /\ ToOutputDict(state[1]).document_id = id
           /\ id.n \notin DOMAIN req[1].store0.documents
           /\ id.n \in DOMAIN documents
           /\ documents[id.n].owner_id = req[1].owner_id
           /\ index.kind = "dict"
           /\ id.n \in DOMAIN index.documents
           /\ CountId(index.owner[req[1].owner_id], id.n) = 1

\* C14 witness: the remote forward raised after a local save that also wrote
\* the embedding, and run() has returned
C14_Witness ==
    /\ pc = "done"
    /\ Happened("remote_fail")
    /\ Happened("emb_end")
    /\ state[1].document_id.n \in DOMAIN embeddings

\* C15: if Cleaning fails the run is not aborted: Assignment and Embedding are
\* called with the raw OCR text as the document text, and the run can still
\* end with the document in the main store.
C15_CleaningFailureFallsBackToRawText ==
    Happened("cleaning_fail") =>
        /\ pc \in {"spawn", "gather", "persist", "remote_wait", "done"}
        /\ state[1].ocr_result[1].text = RawText
        /\ TextToUse(state[1]) = RawText
        /\ ToOutputDict(state[1]).extracted_text = <<RawText>>
        /\ ~Happened("rec_skip") /\ ~Happened("emb_skip")
        /\ pc \in {"persist", "remote_wait", "done"} =>
               Happened("rec_start") /\ Happened("emb_start")
        /\ (Happened("persist_start") /\ state[1].document_id.kind = "local") =>
               /\ state[1].document_id.n \in DOMAIN documents
               /\ documents[state[1].document_id.n].extracted_text = RawText

\* C15 witness: the cleaner raised and the run ended completed, with the
\* document, carrying the raw text, in the main store and indexed
C15_Witness ==
    /\ pc = "done"
    /\ Happened("cleaning_fail")
    /\ state[1].status = "completed"
    /\ state[1].document_id.n \in DOMAIN documents
    /\ documents[state[1].document_id.n].extracted_text = RawText
    /\ Indexed(state[1].document_id.n)

\* the event that records the successful completion of the step with this name
SuccessEvent(name) ==
    IF name = "OCR" THEN "ocr_end"
    ELSE IF name = "Cleaning" THEN "cleaning_end"
    ELSE IF name = "Recommendation" THEN "rec_end"
    ELSE IF name = "Embedding" THEN "emb_end"
    ELSE "remote_end"

\* C16: a step's name is appended to the step log only when that step
\* succeeded: at every point of a run every name in the step log belongs to a
\* step that completed successfully, and the names are in completion order.
C16_StepLogOnlyOnSuccess ==
    pc # "idle" =>
        LET steps == state[1].processing_steps
        IN /\ \A i \in 1..Len(steps) : Happened(SuccessEvent(steps[i]))
           /\ \A i, j \in 1..Len(steps) :
                  i < j => Pos(SuccessEvent(steps[i])) < Pos(SuccessEvent(steps[j]))

\* the first canonical code, in registry order, that no category of the
\* catalog has (the first of the registry when all are taken)
FirstUnusedCanonicalCode(cats) ==
    LET unused == {i \in 1..Len(ALLOWED_CATEGORY_TYPES) :
                      ALLOWED_CATEGORY_TYPES[i] \notin ExistingCodes(cats)}
    IN IF unused = {} THEN ALLOWED_CATEGORY_TYPES[1]
       ELSE ALLOWED_CATEGORY_TYPES[CHOOSE i \in unused : \A j \in unused : i <= j]

\* the proposal carries the new-category marker and no canonical code
MarkerWithoutCanonicalCode(p) ==
    /\ upper(p.category_code) = "NEW_CATEGORY"
    /\ upper(p.new_category_code) \notin AllowedCodes

\* C17: when the proposal carries the new-category marker and its proposed
\* code is missing or not in the registry, the engine substitutes the first
\* canonical code, in registry order, that no existing category uses, and
\* resolves the document to the category with that code, creating it if absent.
C17_SubstitutesFirstUnusedCanonicalCode ==
    (last # <<>> /\ MarkerWithoutCanonicalCode(last[1].proposal)) =>
        /\ ~last[1].raised
        /\ upper(last[1].category_code) = FirstUnusedCanonicalCode(last[1].categories0)
        /\ \E i \in 1..Len(categories) :
               /\ categories[i].id = last[1].category_id
               /\ upper(categories[i].code) = FirstUnusedCanonicalCode(last[1].categories0)

\* the proposal code is neither the marker, nor the code of an existing
\* category, nor a canonical code
Unresolvable(cats, p) ==
    /\ upper(p.category_code) # "NEW_CATEGORY"
    /\ upper(p.category_code) \notin ExistingCodes(cats)
    /\ upper(p.category_code) \notin AllowedCodes

C19_EnsureCategoryIdempotent ==
    /\ \A i, j \in 1..Len(ensured) :
           upper(ensured[i].code) = upper(ensured[j].code) =>
               ensured[i].category.id = ensured[j].category.id
    /\ \A i, j \in 1..Len(categories) :
           i # j => /\ upper(categories[i].code) # upper(categories[j].code)
                    /\ categories[i].id # categories[j].id

\* C20: whenever the resolved category has at least one allowed mapping and
\* the location of its highest-priority allowed mapping is in the current
\* catalog, the assignment returns exactly that location and scores nothing,
\* whatever the location's id.
C20_PreferredLocationWins ==
    (last # <<>> /\ ~last[1].raised) =>
        LET preferred == get_preferred_location_for_category(last[1].mappings0,
                                                             last[1].category_id)
        IN (preferred # <<>> /\ preferred[1] \in LocationIds(last[1].locations)) =>
               /\ last[1].location = preferred
               /\ last[1].path = "preferred"

\* the ids of the locations of locs that have the highest keyword score for
\* the category, when that score is above 0
HighestScoringIds(category_code, locs) ==
    {locs[i].id : i \in {i \in 1..Len(locs) :
        /\ score_location_for_category(category_code, locs[i]) > 0
        /\ \A j \in 1..Len(locs) :
               score_location_for_category(category_code, locs[j])
                   <= score_location_for_category(category_code, locs[i])}}

\* the locations the stated fallback precedence allows: a highest-scoring
\* unused location of score > 0, else a highest-scoring location of score > 0,
\* else the first location of the catalog
FallbackLocations(category_code, locs, used) ==
    IF HighestScoringIds(category_code, UnusedLocations(locs, used)) # {}
    THEN HighestScoringIds(category_code, UnusedLocations(locs, used))
    ELSE IF HighestScoringIds(category_code, locs) # {}
    THEN HighestScoringIds(category_code, locs)
    ELSE {locs[1].id}

\* the category has no allowed mapping, or its preferred location is no
\* longer in the catalog
NoUsablePreferred(mappings, category_id, locs) ==
    LET preferred == get_preferred_location_for_category(mappings, category_id)
    IN preferred = <<>> \/ preferred[1] \notin LocationIds(locs)

\* C21: when the resolved category has no usable preferred location, the
\* assigned location is the highest-scoring unused location of score > 0, else
\* the highest-scoring location (used or not) of score > 0, else the first
\* location of the catalog; a used location that scores above 0 is taken
\* rather than an unused one that scores 0.
C21_FallbackPrecedence ==
    (/\ last # <<>>
     /\ ~last[1].raised
     /\ last[1].locations # <<>>
     /\ NoUsablePreferred(last[1].mappings0, last[1].category_id, last[1].locations))
    => /\ last[1].location # <<>>
       /\ last[1].location[1] \in
              FallbackLocations(last[1].category_code, last[1].locations,
                                get_used_location_ids(last[1].mappings0))

\* the last assignment gave a location to a category that was created by the
\* call or that had no preferred mapping
AssignedWithoutPreferredMapping ==
    /\ last # <<>>
    /\ ~last[1].raised
    /\ last[1].location # <<>>
    /\ \/ \A i \in 1..Len(last[1].categories0) :
              last[1].categories0[i].id # last[1].category_id
       \/ get_preferred_location_for_category(last[1].mappings0, last[1].category_id) = <<>>

\* C22: after a successful location assignment for a category that was newly
\* created or had no preferred mapping, the mapping store holds a mapping
\* (category, assigned location, default priority); and the mapping store never
\* holds two mappings of the same (category, location) pair.
C22_MappingPersistedOnce ==
    /\ AssignedWithoutPreferredMapping
       => \E i \in 1..Len(location_mappings) :
              /\ location_mappings[i].category_id = last[1].category_id
              /\ location_mappings[i].location_id = last[1].location[1]
              /\ location_mappings[i].priority = DefaultPriority
    /\ \A i, j \in 1..Len(location_mappings) :
           (/\ location_mappings[i].category_id = location_mappings[j].category_id
            /\ location_mappings[i].location_id = location_mappings[j].location_id)
           => i = j

\* C23: once a category has been assigned a location, every later assignment
\* for the same category returns that same location, whatever other
\* categories are assigned in between (the location catalog does not change
\* after the files are installed).
C23_StableHome ==
    \A i, j \in 1..Len(assignments) :
        (/\ assignments[i].category_id = assignments[j].category_id
         /\ assignments[i].location # <<>>)
        => assignments[j].location = assignments[i].location

\* C24: two calls started from the same location catalog, the same category
\* catalog and the same mapping list, and resolved to the same category,
\* return the same location and leave the same mapping list.
C24_AssignmentDeterministic ==
    (/\ pair # <<>>
     /\ ~pair[1].raised /\ ~pair[2].raised
     /\ pair[1].category_id = pair[2].category_id
     /\ pair[1].category_code = pair[2].category_code)
    => /\ pair[1].location = pair[2].location
       /\ pair[1].location_mappings = pair[2].location_mappings

\* what generate() returns is one of its two structured results
StructuredResult(result) ==
    /\ Len(result) = 1
    /\ \/ result[1].status = "llm_success" /\ result[1].recommendation # <<>>
       \/ /\ result[1].status = "llm_error"
          /\ result[1].recommendation = <<>>
          /\ result[1].error # "None"

\* C25: whatever the pattern of failures, generate() sends at most
\* MaxRetries (3) requests to the classification capability; it ends only by
\* returning a structured result, and once MaxRetries attempts have failed it
\* has returned the structured failure (it starts no further attempt).
C25_BoundedAttempts ==
    /\ gen[1].posts <= MaxRetries
    /\ gen[1].pc \in {"post", "sleep"} => gen[1].posts < MaxRetries
    /\ gen[1].pc = "done" => StructuredResult(gen[1].result)
    /\ gen[1].failures = MaxRetries
       => /\ gen[1].pc = "done"
          /\ gen[1].result[1].status = "llm_error"

\* three attempts have failed, some with an HTTP error status and one with
\* another error (the call slept once), and the call has returned its failure
C25_Witness ==
    /\ gen[1].pc = "done"
    /\ gen[1].failures = MaxRetries
    /\ Len(gen[1].slept) = 1
    /\ gen[1].result[1].status = "llm_error"

\* 2^n
RECURSIVE Pow2(_)
Pow2(n) == IF n = 0 THEN 1 ELSE 2 * Pow2(n - 1)

\* C26: every failed attempt that is followed by another attempt is separated
\* from it by a backoff sleep, whatever the failure was, and the sleeps double
\* from one retry to the next: when attempt n+1 is about to be made the call
\* has slept n times, for 1, 2, 4, ... seconds.
C26_BackoffBetweenAttempts ==
    gen[1].pc = "post"
    => /\ Len(gen[1].slept) = gen[1].failures
       /\ \A i \in 1..Len(gen[1].slept) : gen[1].slept[i] = Pow2(i - 1)

\* the ids of the documents a search for the owner can return: listed in the
\* index for the owner (for every owner when none is given) with the
\* has_embedding flag, with a body and a stored vector
Searchable(owner_id) ==
    {id \in DOMAIN documents \cap DOMAIN embeddings :
        /\ embeddings[id].embedding # <<>>
        /\ IF owner_id # NoOwner
           THEN \E i \in 1..Len(index.owner[owner_id]) :
                    index.owner[owner_id][i].id = id /\ index.owner[owner_id][i].has_embedding
           ELSE id \in DOMAIN index.documents /\ index.documents[id].has_embedding}

\* the searchable documents whose score reaches min_score
Qualifying(f) ==
    {id \in Searchable(f.owner_id) :
        cosine_similarity(f.query_embedding, embeddings[id].embedding) >= f.min_score}

\* the ids returned by the search
Returned(f) == {f.result.value[i].document_id : i \in 1..Len(f.result.value)}

\* C27: what search returns is in stable descending order of the qualifying
\* documents: the scores never increase along the sequence, results of equal
\* score are in the order the store lists them (the order they were saved in),
\* every result is a qualifying document with its score, and no qualifying
\* document left out ranks before a returned one.
C27_StableDescendingOrder ==
    found # <<>> =>
        LET f == found[1]
            value == f.result.value
        IN /\ \A i \in 1..Len(value) :
                  /\ value[i].document_id \in Qualifying(f)
                  /\ value[i].score =
                         cosine_similarity(f.query_embedding,
                                           embeddings[value[i].document_id].embedding)
           /\ \A i, j \in 1..Len(value) :
                  i < j => \/ value[i].score > value[j].score
                           \/ /\ value[i].score = value[j].score
                              /\ value[i].document_id < value[j].document_id
           /\ \A id \in Qualifying(f) \ Returned(f) :
                  \A i \in 1..Len(value) :
                      LET score == cosine_similarity(f.query_embedding,
                                                     embeddings[id].embedding)
                      IN \/ value[i].score > score
                         \/ value[i].score = score /\ value[i].document_id < id

\* three results: the best one was saved after the other two, which tie
C27_Witness ==
    /\ found # <<>>
    /\ Len(found[1].result.value) = 3
    /\ found[1].result.value[1].score > found[1].result.value[2].score
    /\ found[1].result.value[2].score = found[1].result.value[3].score
    /\ found[1].result.value[1].document_id > found[1].result.value[2].document_id

\* C28: no result of search has a score below min_score, and when no stored
\* document reaches min_score search returns the empty list and does not raise.
C28_NoResultBelowMinScore ==
    found # <<>> =>
        /\ \A i \in 1..Len(found[1].result.value) :
               found[1].result.value[i].score >= found[1].min_score
        /\ Qualifying(found[1]) = {}
           => ~found[1].result.raised /\ found[1].result.value = <<>>

\* documents can be searched, none of them reaches min_score, and the search
\* returned the empty list
C28_Witness ==
    /\ found # <<>>
    /\ found[1].query_embedding # <<>>
    /\ Searchable(found[1].owner_id) # {}
    /\ Qualifying(found[1]) = {}
    /\ ~found[1].result.raised
    /\ found[1].result.value = <<>>

\* the smaller of two numbers
Min(a, b) == IF a < b THEN a ELSE b

\* C29 as stated: for every top_k >= 0 and every store content the number of
\* results is at most top_k and equals min(top_k, number of searchable
\* documents whose score is at least min_score).
C29_ResultCount ==
    (found # <<>> /\ found[1].top_k >= 0) =>
        /\ Len(found[1].result.value) <= found[1].top_k
        /\ Len(found[1].result.value) =
               Min(found[1].top_k, Cardinality(Qualifying(found[1])))

\* C29 amended: the same, for a query vector that is not empty (search
\* returns the empty list for an empty query vector, whose score against every
\* document is 0).
C29_ResultCountForNonEmptyQuery ==
    (found # <<>> /\ found[1].top_k >= 0 /\ found[1].query_embedding # <<>>) =>
        /\ Len(found[1].result.value) <= found[1].top_k
        /\ Len(found[1].result.value) =
               Min(found[1].top_k, Cardinality(Qualifying(found[1])))

\* more documents qualify than top_k allows, and top_k of them were returned
C29_Witness ==
    /\ found # <<>>
    /\ found[1].query_embedding # <<>>
    /\ found[1].top_k = 1
    /\ Cardinality(Qualifying(found[1])) > 1
    /\ Len(found[1].result.value) = 1

\* the document was saved for the owner with an embedding and is flagged
SavedForOwnerWithEmbedding(id, owner_id) ==
    /\ id \in DOMAIN saved
    /\ saved[id].owner_id = owner_id
    /\ saved[id].embedding # <<>>
    /\ id \in DOMAIN documents /\ documents[id].has_embedding

\* C30: search and get_all_embeddings called with an owner id return only
\* documents that were saved with that owner and with an embedding (the
\* has_embedding flag set), after any sequence of saves and deletes.
C30_OwnerScopedResults ==
    /\ \A o \in Owners :
           \A i \in 1..Len(get_all_embeddings(Store, o).value) :
               SavedForOwnerWithEmbedding(get_all_embeddings(Store, o).value[i].id, o)
    /\ (found # <<>> /\ found[1].owner_id # NoOwner)
       => \A id \in Returned(found[1]) : SavedForOwnerWithEmbedding(id, found[1].owner_id)

\* after saves and a delete, a search for owner 1 returned a document while
\* the store also holds a searchable document of owner 2
C30_Witness ==
    /\ found # <<>>
    /\ found[1].owner_id = 1
    /\ found[1].result.value # <<>>
    /\ Searchable(2) # {}
    /\ deleteCalled # {}

RECURSIVE EntriesInSaveOrder(_, _)
\* the index entries of the stored documents of owner_id (of every owner when
\* owner_id is None), in the order save_document handed out their ids, from id i
EntriesInSaveOrder(owner_id, i) ==
    IF i >= nextId THEN <<>>
    ELSE (IF i \in DOMAIN documents
             /\ (owner_id = NoOwner \/ documents[i].owner_id = owner_id)
          THEN <<IndexEntry(documents[i])>> ELSE <<>>)
         \o EntriesInSaveOrder(owner_id, i + 1)

\* the ids of an index list, in its order
IdsOf(entries) == [i \in 1..Len(entries) |-> entries[i].id]

\* the ids of the entries of owner_id in an index list, in its order
RECURSIVE IdsOfOwner(_, _)
IdsOfOwner(entries, owner_id) ==
    IF entries = <<>> THEN <<>>
    ELSE (IF Head(entries).owner_id = owner_id THEN <<Head(entries).id>> ELSE <<>>)
         \o IdsOfOwner(Tail(entries), owner_id)

\* C31: list_documents(owner_id) and list_documents() never raise and list
\* entries in the order the documents were saved (ids are handed out in that
\* order), the first exactly the entries of owner_id among the second, also
\* after a delete_document that failed half-way; and after any sequence of
\* successful save_document and delete_document calls they are exactly the
\* entries of that owner's stored documents and of every stored document, so
\* that a delete takes one entry out and leaves the others in their order.
C31_ListInSaveOrder ==
    \A owner_id \in OwnerKeys :
        LET listed == list_documents(Store, owner_id)
            all == list_documents(Store, NoOwner)
        IN /\ ~listed.raised
           /\ \A i, j \in 1..Len(listed.value) :
                  i < j => listed.value[i].id < listed.value[j].id
           /\ owner_id # NoOwner =>
                  IdsOf(listed.value) = IdsOfOwner(all.value, owner_id)
           /\ ~faulted => listed.value = EntriesInSaveOrder(owner_id, 1)

\* C31 witness: three documents were saved, the second was deleted, and the
\* first and the third, of one owner, are still stored
C31_Witness ==
    /\ ~faulted
    /\ deletedOk = {2}
    /\ DOMAIN documents = {1, 3}
    /\ documents[1].owner_id = documents[3].owner_id
    /\ Len(list_documents(Store, documents[1].owner_id).value) = 2

\* the ids the index lists for owner_id (for everyone when owner_id is None)
\* with has_embedding set, whose body or embedding record is missing
Dangling(owner_id) ==
    {id \in 1..MaxSearchDocs :
        /\ IF owner_id # NoOwner
           THEN \E i \in 1..Len(index.owner[owner_id]) :
                    index.owner[owner_id][i].id = id /\ index.owner[owner_id][i].has_embedding
           ELSE id \in DOMAIN index.documents /\ index.documents[id].has_embedding
        /\ id \notin DOMAIN documents \cap DOMAIN embeddings}

\* C32: an index entry whose body or embedding record is missing is skipped:
\* get_all_embeddings does not raise and returns exactly the flagged entries
\* that have both files, and search (with a query vector that is not empty)
\* does not raise and leaves out no qualifying document that top_k has room for.
C32_MissingBodySkipped ==
    /\ \A owner_id \in OwnerKeys :
          LET got == get_all_embeddings(Store, owner_id)
          IN /\ ~got.raised
             /\ {got.value[i].id : i \in 1..Len(got.value)} = Searchable(owner_id)
             /\ \A i \in 1..Len(got.value) : got.value[i].id \notin Dangling(owner_id)
    /\ found # <<>> =>
          /\ ~found[1].result.raised
          /\ Returned(found[1]) \cap Dangling(found[1].owner_id) = {}
          /\ (/\ found[1].query_embedding # <<>>
              /\ found[1].top_k >= Cardinality(Qualifying(found[1])))
             => Returned(found[1]) = Qualifying(found[1])

\* C32 witness: the owner's list holds an entry whose body is gone (a delete
\* that failed before the index was rewritten) before a document that has both
\* files, and the search returned the latter
C32_Witness ==
    /\ found # <<>>
    /\ found[1].owner_id # NoOwner
    /\ found[1].result.value # <<>>
    /\ \E id \in Dangling(found[1].owner_id) :
          /\ id \notin DOMAIN documents
          /\ \E other \in Returned(found[1]) : id < other

\* the id and the score of each item of a list of results or of result items
IdsAndScores(items) ==
    [i \in 1..Len(items) |-> [document_id |-> items[i].document_id, score |-> items[i].score]]

\* C34: assemble returns one item for each input result whose body can be
\* loaded, with the id and the score of that result, in the order of the
\* input; a result whose body is missing is left out and the others are still
\* returned.
C34_AssembleKeepsOrder ==
    assembled # <<>> =>
        IdsAndScores(assembled[1].value) =
            SelectSeq(assembled[1].search_results,
                      LAMBDA r : r.document_id \in DOMAIN documents)

\* C34 witness: three ranked results, the second without a body (never saved,
\* or deleted), the other two loaded and returned in the input's order, which
\* is not the order they were saved in
C34_Witness ==
    /\ assembled # <<>>
    /\ Len(assembled[1].search_results) = 3
    /\ assembled[1].search_results[1].document_id = 2
    /\ assembled[1].search_results[2].document_id = 3
    /\ assembled[1].search_results[3].document_id = 1
    /\ deleteCalled = {}
    /\ Len(assembled[1].value) = 2
    /\ assembled[1].value[1].document_id = 2
    /\ assembled[1].value[2].document_id = 1

\* a if it is stored (not None), else b
Stored(a, b) == IF a # <<>> THEN a ELSE b

\* C35: with include_location each item's location is the full record of the
\* catalog when the location the document was recommended to is in the
\* catalog; otherwise a location carrying the location name stored in the
\* document's recommendation, whenever a name is stored; and None only when
\* neither is available.
C35_LocationPreference ==
    (assembled # <<>> /\ assembled[1].include_location) =>
        \A i \in 1..Len(assembled[1].value) :
            LET item == assembled[1].value[i]
                recommendation == documents[item.document_id].recommendation_data
                location_id == IF recommendation = <<>> THEN <<>>
                               ELSE Stored(recommendation[1].location_id,
                                           recommendation[1].suggested_location_id)
                location_name == IF recommendation = <<>> THEN <<>>
                                 ELSE Stored(recommendation[1].location_name,
                                             recommendation[1].suggested_location_name)
                catalog == assembled[1].locations
            IN /\ item.has_location
               /\ IF location_id # <<>> /\ location_id[1] \in LocationIds(catalog)
                  THEN \E j \in 1..Len(catalog) :
                          /\ catalog[j].id = location_id[1]
                          /\ item.location =
                                 <<LocationInfo(catalog[j].id, catalog[j].name,
                                                <<catalog[j].words>>)>>
                  ELSE IF location_name # <<>>
                  THEN item.location # <<>> /\ item.location[1].name = location_name[1]
                  ELSE item.location = <<>>

\* name is in the step log
Logged(s, name) == \E i \in 1..Len(s.processing_steps) : s.processing_steps[i] = name

\* C33: SearchPipeline.run always returns a list and never raises; the list
\* is empty when the normalized query is empty, when the embedding capability
\* raises or returns an empty vector, when the similarity search raises, and
\* when nothing matches; with no match the status is "no_results", with no
\* error, and not the failure status "failed". search_by_text returns the
\* empty list as well when the embedding capability raises or returns nothing.
C33_SearchAlwaysReturnsList ==
    /\ (query_state # <<>> /\ query_state[1].pc = "returned") =>
          LET s == query_state[1]
          IN /\ ~s.raised
             /\ s.returned # <<>>
             /\ s.status \in {"failed", "no_results", "completed"}
             /\ s.status = "failed" => s.returned[1] = <<>>
             \* normalization gave the empty query
             /\ normalize(s.query) = <<>> => s.status = "failed" /\ s.returned[1] = <<>>
             \* the embedding failed or was empty
             /\ (normalize(s.query) # <<>> /\ ~Logged(s, "Embedding"))
                    => s.status = "failed" /\ s.returned[1] = <<>>
             \* the similarity search failed
             /\ (Logged(s, "Embedding") /\ ~Logged(s, "SimilaritySearch"))
                    => s.status = "failed" /\ s.returned[1] = <<>>
             \* the similarity search found nothing
             /\ (Logged(s, "SimilaritySearch") /\ s.similarity_results = <<>>)
                    => s.status = "no_results" /\ s.error = "None" /\ s.returned[1] = <<>>
             /\ s.returned[1] # <<>> => s.status = "completed"
    /\ (found # <<>> /\ found[1].outcome # "vector") =>
          ~found[1].result.raised /\ found[1].result.value = <<>>

\* C33 witness: run() returned the empty list after its similarity search
\* failed on an index.json that cannot be used, with documents in the store
C33_Witness ==
    /\ query_state # <<>>
    /\ query_state[1].pc = "returned"
    /\ query_state[1].processing_steps = <<"QueryNormalization", "Embedding">>
    /\ query_state[1].status = "failed"
    /\ query_state[1].returned = << <<>> >>
    /\ index.kind # "dict"
    /\ DOMAIN documents # {}

\* every component of the vector is 0: its norm is 0
ZeroVector(vec) == \A i \in 1..Len(vec) : vec[i] = 0

\* C36: cosine_similarity returns 0 when either vector is empty, when the
\* vectors differ in length, and when either has zero norm; the score is
\* computed without an exception in each of these cases (no component of a
\* vector is read beyond its length and nothing is divided by a zero norm).
C36_ScoreZeroOnDegenerateInput ==
    scored_pair # <<>> =>
        LET vec1 == scored_pair[1].vec1
            vec2 == scored_pair[1].vec2
        IN (\/ vec1 = <<>> \/ vec2 = <<>>
            \/ Len(vec1) # Len(vec2)
            \/ ZeroVector(vec1) \/ ZeroVector(vec2))
           => scored_pair[1].score = 0

\* C36 witness: a zero vector was scored against a vector of the same length
\* that is not zero, and the score is 0
C36_Witness ==
    /\ scored_pair # <<>>
    /\ scored_pair[1].vec1 = <<0, 0>>
    /\ scored_pair[1].vec2 = <<3, 4>>
    /\ scored_pair[1].score = 0

AddedByRun == DOMAIN documents \ DOMAIN req[1].store0.documents

\* C38: when run() returns, its status is "completed" if and only if the run
\* added exactly one record to the main store; with any other status it added
\* none; and it wrote to at most one of the main store and the error store.
C38_CompletedIffOneRecord ==
    pc = "done" =>
        /\ state[1].status = "completed" <=> Cardinality(AddedByRun) = 1
        /\ state[1].status # "completed" => AddedByRun = {}
        /\ ~(AddedByRun # {} /\ Len(errorStore) > req[1].errors0)

\* C39: a generate() call that succeeds on a non-empty catalog returns a
\* location id of that catalog, also when the category's preferred mapping
\* names a location the catalog no longer holds; on an empty catalog it
\* returns no location and leaves the mapping list as it was.
C39_AssignedLocationInCatalog ==
    \A g \in Generators :
        (gen[g].pc = "done" /\ last # <<>> /\ ~last[1].raised) =>
            LET returned == gen[g].result[1].recommendation[1].location_id
            IN /\ gen[g].result[1].status = "llm_success"
               /\ returned = last[1].location
               /\ IF last[1].locations = <<>>
                  THEN /\ returned = <<>>
                       /\ location_mappings = last[1].mappings0
                  ELSE /\ returned # <<>>
                       /\ returned[1] \in LocationIds(last[1].locations)
                       /\ last[1].locations = locations

\* C39 witness: a call has returned a catalog location for a category whose
\* preferred mapping names a location the catalog does not hold
C39_Witness ==
    /\ gen[1].pc = "done" /\ last # <<>> /\ ~last[1].raised
    /\ last[1].locations # <<>>
    /\ LET preferred == get_preferred_location_for_category(last[1].mappings0,
                                                            last[1].category_id)
       IN /\ Truthy(preferred)
          /\ preferred[1] \notin LocationIds(last[1].locations)
    /\ gen[1].result[1].recommendation[1].location_id[1] \in LocationIds(locations)

\* a call has returned without a location from an empty catalog
C39_WitnessEmptyCatalog ==
    /\ gen[1].pc = "done" /\ last # <<>> /\ ~last[1].raised
    /\ locations = <<>>
    /\ gen[1].result[1].recommendation[1].location_id = <<>>

\* the step is a save_document or a delete_document call
SaveOrDeleteStep == nextId' # nextId \/ deleteCalled' # deleteCalled

\* C40: the document index and the mapping list are keys of one index.json.
\* In every sequence of save_document, delete_document and assignment calls,
\* a save or a delete leaves the mapping list as it was, and an assignment,
\* whether or not it persists a mapping, leaves the global and the per-owner
\* index entries of every document as they were.
C40_SharedIndexFrame ==
    [][/\ SaveOrDeleteStep =>
              /\ location_mappings' = location_mappings
              /\ load_location_mappings_from_index(SharedIndex)' =
                     load_location_mappings_from_index(SharedIndex)
       /\ gcalls' # gcalls =>
              /\ index'.documents = index.documents
              /\ index'.owner = index.owner
              /\ documents' = documents]_vars

====
